---- MODULE Spec2Model ----
(***************************************************************************)
(* A model of APE-Test's crawl engine: the request model (request.py),    *)
(* the robots.txt policy engine (robots.py) and the spider that owns the  *)
(* frontier and the site graph (spider.py).                                *)
(*                                                                         *)
(* Strings are sequences of Unicode code points, so Python's string       *)
(* comparison, slicing and prefix tests are what they are in the code.    *)
(***************************************************************************)
EXTENDS Integers, Sequences, FiniteSets, TLC

VARIABLES
    \* ---- Spider (spider.py) ----
    base_url,              \* Spider._base_url
    rules,                 \* Spider._rules
    requests_to_check,     \* Spider._requests_to_check
    requests_checked,      \* Spider._requests_checked
    queries_per_page,      \* Spider._queries_per_page (defaultdict(int))
    site_graph,            \* Spider._site_graph
    page_referred_from,    \* Spider._page_referred_from (defaultdict(set))
    yielded,               \* history: the requests __iter__ has yielded, in order
    enqueued,              \* history: the requests add_requests has queued (line 129), in order
    last_call,             \* the last Spider operation and how it ended
    \* ---- robots.txt (robots.py) ----
    call,                  \* a call of path_allowed, lookup_robots_rules or unescape_path:
                           \* its arguments, and its result once it has returned
    records_read,          \* parse_robots_txt: the records read so far, the last one in progress
    parser,                \* parse_robots_txt: its local variables and the log
    parser_pc              \* parse_robots_txt: "records" in the loops, "done" once returned

spider_vars == <<base_url, rules, requests_to_check, requests_checked,
                 queries_per_page, site_graph, page_referred_from,
                 yielded, enqueued, last_call>>

robots_vars == <<call, records_read, parser, parser_pc>>

vars == <<spider_vars, robots_vars>>

-----------------------------------------------------------------------------
(* Strings                                                                 *)

\* str.startswith
StartsWith(s, p) == Len(p) <= Len(s) /\ SubSeq(s, 1, Len(p)) = p

\* Python's < on str: lexicographic on code points, a proper prefix is smaller.
StrLt(a, b) ==
    \E i \in 1..Len(b) :
        /\ \A j \in 1..(i - 1) : j <= Len(a) /\ a[j] = b[j]
        /\ (i > Len(a) \/ a[i] < b[i])

\* s[i:] for a 0-based index i
Slice(s, i) == SubSeq(s, i + 1, Len(s))

\* str.rindex(c), 0-based; the callers only ask for a character that occurs
RIndex(s, c) == (CHOOSE i \in 1..Len(s) : s[i] = c /\ \A j \in (i + 1)..Len(s) : s[j] # c) - 1

Range(s) == {s[i] : i \in 1..Len(s)}

-----------------------------------------------------------------------------
(* Request (request.py)                                                    *)

\* < on (key, value) tuples of str
PairLt(p, q) == StrLt(p[1], q[1]) \/ (p[1] = q[1] /\ StrLt(p[2], q[2]))

\* < on tuples of (key, value) pairs
QueryLt(a, b) ==
    \E i \in 1..Len(b) :
        /\ \A j \in 1..(i - 1) : j <= Len(a) /\ a[j] = b[j]
        /\ (i > Len(a) \/ PairLt(a[i], b[i]))

\* sorted(query): insertion into an already sorted prefix, stable
RECURSIVE InsertSorted(_, _)
InsertSorted(sorted, x) ==
    IF sorted = <<>> THEN <<x>>
    ELSE IF PairLt(x, Head(sorted)) THEN <<x>> \o sorted
    ELSE <<Head(sorted)>> \o InsertSorted(Tail(sorted), x)

RECURSIVE SortQuery(_)
SortQuery(query) ==
    IF query = <<>> THEN <<>>
    ELSE InsertSorted(SortQuery(SubSeq(query, 1, Len(query) - 1)), query[Len(query)])

\* A page URL is scheme://host/path with one fixed host; the model keeps the
\* scheme and the path, which is all urlsplit, startswith('file:') and the
\* string order of two page URLs look at.
PageUrl(scheme, path) == [scheme |-> scheme, path |-> path]

UrlLt(u, v) ==
    StrLt(u.scheme, v.scheme) \/ (u.scheme = v.scheme /\ StrLt(u.path, v.path))

\* (mutant) the query is stored in the order given
Request_Unsorted(page_url, query, maybe_bad) ==
    [page_url |-> page_url, query |-> query, maybe_bad |-> maybe_bad]

\* Request.__init__
Request(page_url, query, maybe_bad) ==
    [page_url |-> page_url, query |-> SortQuery(query), maybe_bad |-> maybe_bad]

\* (mutant) equality that reads maybe_bad too
ReqEq_WithFlag(r, s) ==
    r.page_url = s.page_url /\ r.query = s.query /\ r.maybe_bad = s.maybe_bad

\* Request.__eq__ (and __hash__, which reads the same two fields)
ReqEq(r, s) == r.page_url = s.page_url /\ r.query = s.query

\* Request.__lt__
ReqLt(r, s) ==
    UrlLt(r.page_url, s.page_url) \/ (r.page_url = s.page_url /\ QueryLt(r.query, s.query))

\* The identity a set or dict of Requests sees
ReqKey(r) == <<r.page_url, r.query>>

\* request in S, for a Python set S of Requests
InReqSet(r, S) == \E s \in S : ReqEq(s, r)

\* S.add(r): an equal element already present is kept
ReqSetAdd(S, r) == IF InReqSet(r, S) THEN S ELSE S \cup {r}

\* S.remove(r)
ReqSetRemove(S, r) == {s \in S : ~ReqEq(s, r)}

\* (mutant) the largest element is taken
ReqMin_Largest(S) == CHOOSE r \in S : \A s \in S : ~ReqLt(r, s)

\* min(S): no other element is smaller under __lt__
ReqMin(S) == CHOOSE r \in S : \A s \in S : ~ReqLt(s, r)

-----------------------------------------------------------------------------
(* robots.py: path_allowed                                                 *)

\* A rule is <<allow, prefix>>.
RECURSIVE PathAllowedLoop(_, _, _, _, _)

\* (mutant) the first matching rule wins
PathAllowedLoop_FirstMatch(path, rs, i, result, longest) ==
    IF i > Len(rs) THEN result
    ELSE IF StartsWith(path, rs[i][2]) /\ longest = 0
         THEN PathAllowedLoop(path, rs, i + 1, rs[i][1], Len(rs[i][2]))
         ELSE PathAllowedLoop(path, rs, i + 1, result, longest)

PathAllowedLoop(path, rs, i, result, longest) ==
    IF i > Len(rs) THEN result
    ELSE IF StartsWith(path, rs[i][2]) /\ Len(rs[i][2]) > longest
         THEN PathAllowedLoop(path, rs, i + 1, rs[i][1], Len(rs[i][2]))
         ELSE PathAllowedLoop(path, rs, i + 1, result, longest)

path_allowed(path, rs) == PathAllowedLoop(path, rs, 1, TRUE, 0)

-----------------------------------------------------------------------------
(* robots.py: unescape_path                                                *)

\* str.find(c, start), 0-based, -1 when c does not occur from start on
Find(s, c, start) ==
    IF \E i \in (start + 1)..Len(s) : s[i] = c
    THEN (CHOOSE i \in (start + 1)..Len(s) : s[i] = c /\ \A j \in (start + 1)..(i - 1) : s[j] # c) - 1
    ELSE -1

IsHexDigit(c) == c \in 48..57 \/ c \in 65..70 \/ c \in 97..102

HexDigit(c) == IF c \in 48..57 THEN c - 48 ELSE IF c \in 65..70 THEN c - 55 ELSE c - 87

\* what int() strips from both ends of its argument
IsSpace(c) == c \in 9..13 \/ c \in 28..32 \/ c = 133 \/ c = 160

\* int(hex_num, 16) for the two characters after a '%' (line 173); -1 stands
\* for ValueError. int() takes two hex digits, and also one hex digit after
\* a sign or next to white space. A '-' has raised before (line 171).
IntBase16(hex_num) ==
    IF IsHexDigit(hex_num[1]) /\ IsHexDigit(hex_num[2])
    THEN 16 * HexDigit(hex_num[1]) + HexDigit(hex_num[2])
    ELSE IF (hex_num[1] = 43 \/ IsSpace(hex_num[1])) /\ IsHexDigit(hex_num[2])
    THEN HexDigit(hex_num[2])
    ELSE IF IsHexDigit(hex_num[1]) /\ IsSpace(hex_num[2])
    THEN HexDigit(hex_num[1])
    ELSE -1

\* bytes(data).decode() (line 185) for a lead byte in 0xC0..0xF7 followed by
\* the continuation bytes it asks for: the code point, or -1 for the
\* UnicodeDecodeError (a ValueError) of an overlong form, a surrogate or a
\* value above U+10FFFF.
Utf8Decode(data) ==
    LET cp == IF Len(data) = 2 THEN (data[1] - 192) * 64 + (data[2] - 128)
              ELSE IF Len(data) = 3
                   THEN (data[1] - 224) * 4096 + (data[2] - 128) * 64 + (data[3] - 128)
                   ELSE (data[1] - 240) * 262144 + (data[2] - 128) * 4096
                            + (data[3] - 128) * 64 + (data[4] - 128)
        least == IF Len(data) = 2 THEN 128 ELSE IF Len(data) = 3 THEN 2048 ELSE 65536
    IN  IF cp < least \/ cp \in 55296..57343 \/ cp > 1114111 THEN -1 ELSE cp

Raise(message) == [ok |-> FALSE, error |-> message]

\* unescape_path: the outer loop (lines 155-158) and the inner loop
\* (lines 164-216). idx is the code's 0-based idx.
RECURSIVE UnescapeFrom(_, _)
RECURSIVE UnescapeBytes(_, _, _, _, _)

UnescapeFrom(path, idx) ==
    LET found == Find(path, 37, idx)
    IN  IF found = -1
        THEN [ok |-> TRUE, path |-> path]
        ELSE UnescapeBytes(path, found, found, <<>>, 0)

UnescapeBytes(path, start, idx0, data0, remaining0) ==
    LET hex_num == SubSeq(path, idx0 + 2, IF idx0 + 3 <= Len(path) THEN idx0 + 3 ELSE Len(path))
        idx == idx0 + 3
        value == IntBase16(hex_num)
        data == Append(data0, value)
        before == SubSeq(path, 1, start)
        after == Slice(path, idx)
    IN  IF Len(hex_num) # 2 THEN Raise("incomplete escape")
        ELSE IF 45 \in Range(hex_num) \/ value = -1 THEN Raise("incorrect escape")
        ELSE IF Len(data) > 1 /\ (value < 128 \/ value >= 192)
        THEN Raise("expected 0x80..0xBF for non-first byte")
        ELSE IF Len(data) > 1 /\ remaining0 - 1 = 0
        THEN IF Utf8Decode(data) = -1
             THEN Raise("can't decode")
             ELSE UnescapeFrom(before \o <<Utf8Decode(data)>> \o after, idx)
        ELSE IF Len(data) = 1 /\ value = 47
        THEN UnescapeFrom(before \o <<37, 50, 102>> \o after, idx)
        ELSE IF Len(data) = 1 /\ value < 128
        THEN UnescapeFrom(before \o <<value>> \o after, idx)
        ELSE IF Len(data) = 1 /\ (value < 192 \/ value >= 248)
        THEN Raise("expected 0xC0..0xF7 for first byte")
        ELSE LET remaining == IF Len(data) > 1 THEN remaining0 - 1
                              ELSE IF value < 224 THEN 1
                              ELSE IF value < 240 THEN 2 ELSE 3
             IN  IF idx = Len(path) \/ path[idx + 1] # 37
                 THEN Raise("incomplete escaped UTF8 character")
                 ELSE UnescapeBytes(path, start, idx, data, remaining)

unescape_path(path) == UnescapeFrom(path, 0)

-----------------------------------------------------------------------------
(* robots.py: lookup_robots_rules                                          *)

\* str.casefold on the characters the model uses
CaseFold(s) == [i \in 1..Len(s) |-> IF s[i] \in 65..90 THEN s[i] + 32 ELSE s[i]]

\* A rules map is the sequence of its <<name, rules>> items in insertion
\* order, which is the order dict.items() has.
MapNames(rules_map) == {rules_map[i][1] : i \in 1..Len(rules_map)}

MapGet(rules_map, name, default) ==
    IF name \in MapNames(rules_map)
    THEN rules_map[CHOOSE i \in 1..Len(rules_map) : rules_map[i][1] = name][2]
    ELSE default

RECURSIVE LookupLoop(_, _, _)

\* (mutant) the key is matched as a prefix of the agent name
LookupLoop_KeyPrefixOfAgent(rules_map, user_agent, i) ==
    IF i > Len(rules_map) THEN MapGet(rules_map, <<42>>, <<>>)
    ELSE IF StartsWith(user_agent, rules_map[i][1]) THEN rules_map[i][2]
    ELSE LookupLoop(rules_map, user_agent, i + 1)

LookupLoop(rules_map, user_agent, i) ==
    IF i > Len(rules_map) THEN MapGet(rules_map, <<42>>, <<>>)
    ELSE IF StartsWith(rules_map[i][1], user_agent) THEN rules_map[i][2]
    ELSE LookupLoop(rules_map, user_agent, i + 1)

lookup_robots_rules(rules_map, user_agent) == LookupLoop(rules_map, CaseFold(user_agent), 1)

-----------------------------------------------------------------------------
(* robots.py: scan_robots_txt                                              *)

\* str.lstrip and str.strip
RECURSIVE LStrip(_)
LStrip(s) == IF s # <<>> /\ IsSpace(s[1]) THEN LStrip(Tail(s)) ELSE s

RECURSIVE RStrip(_)
RStrip(s) == IF s # <<>> /\ IsSpace(s[Len(s)]) THEN RStrip(SubSeq(s, 1, Len(s) - 1)) ELSE s

Strip(s) == RStrip(LStrip(s))

\* s.split(c, 1): one part when c does not occur in s, else the parts
\* before and after its first occurrence
Split1(s, c) ==
    LET at == Find(s, c, 0)
    IN  IF at = -1 THEN <<s>> ELSE <<SubSeq(s, 1, at), Slice(s, at + 1)>>

ScanLogged(sc, level, what) ==
    [sc EXCEPT !.log = Append(@, [level |-> level, lineno |-> sc.lineno, what |-> what])]

\* (mutant) a comment-only line ends the record like an empty line
ScanLine_CommentEndsRecord(sc0) ==
    LET sc == [sc0 EXCEPT !.lineno = @ + 1]
        line == sc.lines[sc.lineno]
        stripped_line == LStrip(line)
        nocomment_line == Split1(stripped_line, 35)[1]
        parts == Split1(nocomment_line, 58)
        warned == IF Len(stripped_line) # Len(line)
                  THEN ScanLogged(sc, "warning", "whitespace before field") ELSE sc
    IN  IF stripped_line = <<>> \/ StartsWith(stripped_line, <<35>>)
        THEN IF sc.record # <<>>
             THEN [sc EXCEPT !.yielded = Append(@, sc.record), !.record = <<>>]
             ELSE sc
        ELSE IF Len(parts) # 2
        THEN ScanLogged(warned, "error", "no colon")
        ELSE [warned EXCEPT !.record =
                 Append(@, [lineno |-> sc.lineno, field |-> CaseFold(parts[1]),
                            value |-> Strip(parts[2])])]

\* lines 52-72: the body of the loop over the lines. sc holds the
\* generator's locals: lines, lineno, record, and what it has yielded and
\* logged.
ScanLine(sc0) ==
    LET sc == [sc0 EXCEPT !.lineno = @ + 1]
        line == sc.lines[sc.lineno]
        stripped_line == LStrip(line)
        nocomment_line == Split1(stripped_line, 35)[1]
        parts == Split1(nocomment_line, 58)
        warned == IF Len(stripped_line) # Len(line)
                  THEN ScanLogged(sc, "warning", "whitespace before field") ELSE sc
    IN  IF StartsWith(stripped_line, <<35>>)
        THEN sc
        ELSE IF stripped_line = <<>>
        THEN IF sc.record # <<>>
             THEN [sc EXCEPT !.yielded = Append(@, sc.record), !.record = <<>>]
             ELSE sc
        ELSE IF Len(parts) # 2
        THEN ScanLogged(warned, "error", "no colon")
        ELSE [warned EXCEPT !.record =
                 Append(@, [lineno |-> sc.lineno, field |-> CaseFold(parts[1]),
                            value |-> Strip(parts[2])])]

\* lines 74-75: after the loop
ScanEnd(sc) ==
    IF sc.record # <<>>
    THEN [sc EXCEPT !.yielded = Append(@, sc.record), !.record = <<>>]
    ELSE sc

\* scan_robots_txt as a function of its lines: the records it yields
RECURSIVE ScanFrom(_)
ScanFrom(sc) == IF sc.lineno = Len(sc.lines) THEN ScanEnd(sc) ELSE ScanFrom(ScanLine(sc))

ScanStart(lines) ==
    [fn |-> "scan_robots_txt", lines |-> lines, lineno |-> 0, record |-> <<>>,
     yielded |-> <<>>, log |-> <<>>, result |-> <<>>]

scan_robots_txt(lines) == ScanFrom(ScanStart(lines)).yielded

-----------------------------------------------------------------------------
(* robots.py: parse_robots_txt                                             *)

\* A token is [lineno, field, value]. The parser's state:
\*   result           the dict, as its <<name, list>> items in insertion order,
\*                    where list is the index in lists of the list object bound
\*   lists            the rule list objects created so far
\*   rules            the list object the local variable rules refers to
\*   seen_user_agent  the local flag
\*   unknowns         the set unknowns
\*   log              what was logged, in order
ParserStart ==
    [result |-> <<>>, lists |-> <<>>, rules |-> 0, seen_user_agent |-> FALSE,
     unknowns |-> {}, log |-> <<>>]

Logged(ps, level, lineno, what) ==
    [ps EXCEPT !.log = Append(@, [level |-> level, lineno |-> lineno, what |-> what])]

\* rules = []: a new list object
NewRules(ps) == [ps EXCEPT !.lists = Append(@, <<>>), !.rules = Len(ps.lists) + 1]

\* lines 97-98: the head of the loop over records
StartRecord(ps) == [NewRules(ps) EXCEPT !.seen_user_agent = FALSE]

\* (mutant) a user agent named again is bound to the new group's rules
UserAgentLine_LastWins(ps, tok) ==
    LET ps1 == IF ps.lists[ps.rules] # <<>>
               THEN NewRules(Logged(ps, "error", tok.lineno, "user agent after rules"))
               ELSE ps
        ps2 == [ps1 EXCEPT !.seen_user_agent = TRUE]
        name == CaseFold(tok.value)
    IN  IF name \in MapNames(ps2.result)
        THEN [ps2 EXCEPT !.result =
                 [i \in 1..Len(@) |-> IF @[i][1] = name THEN <<name, ps2.rules>> ELSE @[i]]]
        ELSE [ps2 EXCEPT !.result = Append(@, <<name, ps2.rules>>)]

\* lines 100-119: a user-agent line
UserAgentLine(ps, tok) ==
    LET ps1 == IF ps.lists[ps.rules] # <<>>
               THEN NewRules(Logged(ps, "error", tok.lineno, "user agent after rules"))
               ELSE ps
        ps2 == [ps1 EXCEPT !.seen_user_agent = TRUE]
        name == CaseFold(tok.value)
    IN  IF name \in MapNames(ps2.result)
        THEN Logged(ps2, "error", tok.lineno, "user agent already addressed")
        ELSE [ps2 EXCEPT !.result = Append(@, <<name, ps2.rules>>)]

\* lines 120-138: an allow or disallow line
RuleLine(ps, tok) ==
    IF ps.seen_user_agent
    THEN LET unescaped == unescape_path(tok.value)
         IN  IF ~unescaped.ok
             THEN Logged(ps, "error", tok.lineno, "bad escape")
             ELSE IF unescaped.path # <<>>
                  THEN [ps EXCEPT !.lists[ps.rules] =
                           Append(@, <<tok.field = "allow", unescaped.path>>)]
                  ELSE ps
    ELSE Logged(ps, "error", tok.lineno, "rule without a preceding user agent line")

\* lines 139-143: any other field
UnknownLine(ps, tok) ==
    IF tok.field \notin ps.unknowns
    THEN Logged([ps EXCEPT !.unknowns = @ \cup {tok.field}], "info", tok.lineno, "unknown field")
    ELSE ps

\* lines 99-143: the body of the loop over the tokens of a record
ParseToken(ps, tok) ==
    IF tok.field = "user-agent" THEN UserAgentLine(ps, tok)
    ELSE IF tok.field \in {"allow", "disallow"} THEN RuleLine(ps, tok)
    ELSE UnknownLine(ps, tok)

\* the mapping parse_robots_txt returns: each name with the contents of its list
RulesMapOf(ps) == [i \in 1..Len(ps.result) |-> <<ps.result[i][1], ps.lists[ps.result[i][2]]>>]

\* parse_robots_txt as a function of its records
RECURSIVE ParseTokens(_, _, _)
ParseTokens(ps, record, i) ==
    IF i > Len(record) THEN ps ELSE ParseTokens(ParseToken(ps, record[i]), record, i + 1)

RECURSIVE ParseRecords(_, _, _)
ParseRecords(ps, records, r) ==
    IF r > Len(records) THEN ps
    ELSE ParseRecords(ParseTokens(StartRecord(ps), records[r], 1), records, r + 1)

parse_robots_txt(records) == ParseRecords(ParserStart, records, 1)

-----------------------------------------------------------------------------
(* request.py: Request.from_url and Request.__str__                        *)

\* the host of every URL of the model: 'h'
Host == <<104>>

\* the first position at or after i (1-based) of a character of cs in s,
\* Len(s) + 1 when there is none
FirstOf(s, cs, i) ==
    IF \E j \in i..Len(s) : s[j] \in cs
    THEN CHOOSE j \in i..Len(s) : s[j] \in cs /\ \A k \in i..(j - 1) : s[k] \notin cs
    ELSE Len(s) + 1

\* urlsplit(url) for a URL <scheme>://<host><path>?<query>#<fragment>, the
\* last three optional
urlsplit(url) ==
    LET colon == FirstOf(url, {58}, 1)
        host_end == FirstOf(url, {47, 63, 35}, colon + 3)
        path_end == FirstOf(url, {63, 35}, host_end)
        query_end == IF path_end <= Len(url) /\ url[path_end] = 63
                     THEN FirstOf(url, {35}, path_end) ELSE path_end
    IN  [scheme |-> SubSeq(url, 1, colon - 1),
         host |-> SubSeq(url, colon + 3, host_end - 1),
         path |-> SubSeq(url, host_end, path_end - 1),
         query |-> SubSeq(url, path_end + 1, query_end - 1),
         fragment |-> SubSeq(url, query_end + 1, Len(url))]

\* urlunsplit((scheme, host, path, "", "")) of a page URL of the model
urlunsplit(page_url) == page_url.scheme \o <<58, 47, 47>> \o Host \o page_url.path

\* s.split(c)
RECURSIVE Split(_, _)
Split(s, c) ==
    LET at == Find(s, c, 0)
    IN  IF at = -1 THEN <<s>> ELSE <<SubSeq(s, 1, at)>> \o Split(Slice(s, at + 1), c)

\* sep.join(parts)
RECURSIVE Join(_, _)
Join(parts, sep) ==
    IF parts = <<>> THEN <<>>
    ELSE IF Len(parts) = 1 THEN parts[1]
    ELSE parts[1] \o sep \o Join(Tail(parts), sep)

\* the UTF-8 encoding of a code point
Utf8Encode(cp) ==
    IF cp < 128 THEN <<cp>>
    ELSE IF cp < 2048 THEN <<192 + (cp \div 64), 128 + (cp % 64)>>
    ELSE IF cp < 65536
    THEN <<224 + (cp \div 4096), 128 + ((cp \div 64) % 64), 128 + (cp % 64)>>
    ELSE <<240 + (cp \div 262144), 128 + ((cp \div 4096) % 64),
           128 + ((cp \div 64) % 64), 128 + (cp % 64)>>

HexChar(n) == IF n < 10 THEN 48 + n ELSE 55 + n

\* the characters quote_plus leaves as they are: letters, digits, '_.-~'
IsUnreserved(c) ==
    c \in 48..57 \/ c \in 65..90 \/ c \in 97..122 \/ c \in {95, 46, 45, 126}

RECURSIVE PercentEncode(_)
PercentEncode(bytes) ==
    IF bytes = <<>> THEN <<>>
    ELSE <<37, HexChar(bytes[1] \div 16), HexChar(bytes[1] % 16)>> \o PercentEncode(Tail(bytes))

\* (mutant) nothing is quoted
quote_plus_Unquoted(s) == s

\* urllib.parse.quote_plus
RECURSIVE quote_plus(_)
quote_plus(s) ==
    IF s = <<>> THEN <<>>
    ELSE (IF s[1] = 32 THEN <<43>>
          ELSE IF IsUnreserved(s[1]) THEN <<s[1]>>
          ELSE PercentEncode(Utf8Encode(s[1])))
         \o quote_plus(Tail(s))

\* the value of the escape '%XX' at position i of s, -1 when there is none
HexEscapeAt(s, i) ==
    IF i + 2 <= Len(s) /\ s[i] = 37 /\ IsHexDigit(s[i + 1]) /\ IsHexDigit(s[i + 2])
    THEN 16 * HexDigit(s[i + 1]) + HexDigit(s[i + 2])
    ELSE -1

\* urllib.parse.unquote from position i on: an escape below 0x80 is its
\* character, escapes that form a UTF-8 sequence are the character they
\* encode, any other escaped byte is U+FFFD (errors='replace'), and a '%'
\* that starts no escape stays
RECURSIVE UnquoteFrom(_, _)
UnquoteFrom(s, i) ==
    IF i > Len(s) THEN <<>>
    ELSE IF HexEscapeAt(s, i) = -1 THEN <<s[i]>> \o UnquoteFrom(s, i + 1)
    ELSE LET first == HexEscapeAt(s, i)
             more == IF first \in 194..223 THEN 1
                     ELSE IF first \in 224..239 THEN 2
                     ELSE IF first \in 240..244 THEN 3 ELSE 0
             bytes == [k \in 1..(more + 1) |-> HexEscapeAt(s, i + 3 * (k - 1))]
         IN  IF first < 128 THEN <<first>> \o UnquoteFrom(s, i + 3)
             ELSE IF more > 0 /\ (\A k \in 2..(more + 1) : bytes[k] \in 128..191)
                       /\ Utf8Decode(bytes) # -1
             THEN <<Utf8Decode(bytes)>> \o UnquoteFrom(s, i + 3 * (more + 1))
             ELSE <<65533>> \o UnquoteFrom(s, i + 3)

\* urllib.parse.unquote_plus
unquote_plus(s) == UnquoteFrom([i \in 1..Len(s) |-> IF s[i] = 43 THEN 32 ELSE s[i]], 1)

\* lines 33-45: the (key, value) pairs of the elements, or ValueError
RECURSIVE QueryOf(_, _)
QueryOf(elems, i) ==
    IF i > Len(elems) THEN [ok |-> TRUE, query |-> <<>>]
    ELSE IF 61 \notin Range(elems[i]) THEN [ok |-> FALSE, error |-> "ValueError"]
    ELSE LET kv == Split1(elems[i], 61)
             rest == QueryOf(elems, i + 1)
         IN  IF rest.ok
             THEN [ok |-> TRUE,
                   query |-> << <<unquote_plus(kv[1]), unquote_plus(kv[2])>> >> \o rest.query]
             ELSE rest

\* Request.from_url
from_url(url) ==
    LET parts == urlsplit(url)
        path == IF parts.path = <<>> THEN <<47>> ELSE parts.path
        page_url == PageUrl(parts.scheme, path)
        parsed == IF parts.query # <<>> THEN QueryOf(Split(parts.query, 38), 1)
                  ELSE [ok |-> TRUE, query |-> <<>>]
    IN  IF parsed.ok
        THEN [ok |-> TRUE, request |-> Request(page_url, parsed.query, FALSE)]
        ELSE parsed

\* Request.__str__
RequestStr(request) ==
    IF request.query # <<>>
    THEN urlunsplit(request.page_url) \o <<63>>
            \o Join([i \in 1..Len(request.query) |->
                        quote_plus(request.query[i][1]) \o <<61>>
                            \o quote_plus(request.query[i][2])],
                    <<38>>)
    ELSE urlunsplit(request.page_url)

-----------------------------------------------------------------------------
(* Referrer (apetest.referrer: Redirect, LinkSet, Form)                    *)

\* A referrer is its page_url and the requests iter_requests yields, in the
\* order it yields them; every request of a referrer has the referrer's
\* page_url.
Redirect(request) ==
    [kind |-> "Redirect", page_url |-> request.page_url, requests |-> <<request>>]

LinkSet(page_url, queries) ==
    [kind |-> "LinkSet", page_url |-> page_url,
     requests |-> [i \in 1..Len(queries) |-> Request(page_url, queries[i], FALSE)]]

\* Requests synthesized from a form's controls are speculative.
Form(submit_url, queries) ==
    [kind |-> "Form", page_url |-> submit_url,
     requests |-> [i \in 1..Len(queries) |-> Request(submit_url, queries[i], TRUE)]]

-----------------------------------------------------------------------------
(* Spider (spider.py)                                                      *)

\* Spider.max_queries_per_page. spider.py:37 sets 100; the spider reads it
\* as a parameter, and the model checks it at a small value.
max_queries_per_page == 2

\* d[k] on a defaultdict creates the entry when it is missing
Touch(d, k, default) == IF k \in DOMAIN d THEN d ELSE d @@ (k :> default)

\* Spider.referrer_allowed, for a spider with the given base URL and rules
ReferrerAllowedFor(base, rs, referrer) ==
    LET path == IF referrer.page_url.path = <<>> THEN <<47>> ELSE referrer.page_url.path
    IN  IF base.scheme = <<102, 105, 108, 101>>                     \* 'file'
        THEN LET base_path == IF base.path = <<>> THEN <<47>> ELSE base.path
             IN  IF ~StartsWith(path, base_path)
                 THEN FALSE
                 ELSE path_allowed(Slice(path, RIndex(base_path, 47)), rs)
        ELSE path_allowed(path, rs)

referrer_allowed(referrer) == ReferrerAllowedFor(base_url, rules, referrer)

\* (mutant) a request is only looked up in requests_to_check
RECURSIVE RequestLoop_NoCheckedTest(_, _, _, _)
RequestLoop_NoCheckedTest(st, url, reqs, i) ==
    IF i > Len(reqs) THEN st
    ELSE IF InReqSet(reqs[i], st.to_check)
         THEN RequestLoop_NoCheckedTest(st, url, reqs, i + 1)
         ELSE LET qpp == Touch(st.qpp, url, 0)
              IN  IF qpp[url] >= max_queries_per_page
                  THEN [st EXCEPT !.qpp = qpp]
                  ELSE RequestLoop_NoCheckedTest(
                           [st EXCEPT !.qpp = [qpp EXCEPT ![url] = @ + 1],
                                      !.to_check = ReqSetAdd(@, reqs[i]),
                                      !.enq = Append(@, reqs[i])],
                           url, reqs, i + 1)

\* (mutant) the budget test is > where the code has >=
RECURSIVE RequestLoop_OffByOne(_, _, _, _)
RequestLoop_OffByOne(st, url, reqs, i) ==
    IF i > Len(reqs) THEN st
    ELSE IF InReqSet(reqs[i], requests_checked) \/ InReqSet(reqs[i], st.to_check)
         THEN RequestLoop_OffByOne(st, url, reqs, i + 1)
         ELSE LET qpp == Touch(st.qpp, url, 0)
              IN  IF qpp[url] > max_queries_per_page
                  THEN [st EXCEPT !.qpp = qpp]
                  ELSE RequestLoop_OffByOne(
                           [st EXCEPT !.qpp = [qpp EXCEPT ![url] = @ + 1],
                                      !.to_check = ReqSetAdd(@, reqs[i]),
                                      !.enq = Append(@, reqs[i])],
                           url, reqs, i + 1)

\* add_requests, lines 121-129: the requests of one referrer.
\* st = [to_check, qpp, prf, enq]
RECURSIVE RequestLoop(_, _, _, _)
RequestLoop(st, url, reqs, i) ==
    IF i > Len(reqs) THEN st
    ELSE IF InReqSet(reqs[i], requests_checked) \/ InReqSet(reqs[i], st.to_check)
         THEN RequestLoop(st, url, reqs, i + 1)                      \* continue
         ELSE LET qpp == Touch(st.qpp, url, 0)
              IN  IF qpp[url] >= max_queries_per_page
                  THEN [st EXCEPT !.qpp = qpp]                        \* break
                  ELSE RequestLoop(
                           [st EXCEPT !.qpp = [qpp EXCEPT ![url] = @ + 1],
                                      !.to_check = ReqSetAdd(@, reqs[i]),
                                      !.enq = Append(@, reqs[i])],
                           url, reqs, i + 1)

\* (mutant) the break of line 126 ends the loop over the referrers too
RECURSIVE ReferrerLoop_CapEndsAll(_, _, _, _)
ReferrerLoop_CapEndsAll(st, source_req, refs, i) ==
    IF i > Len(refs) THEN st
    ELSE LET url == refs[i].page_url
             prf == Touch(st.prf, url, {})
             st1 == [st EXCEPT !.prf = [prf EXCEPT ![url] = ReqSetAdd(@, source_req)]]
             st2 == RequestLoop(st1, url, refs[i].requests, 1)
         IN  IF \E k \in 1..Len(refs[i].requests) :
                    /\ ~InReqSet(refs[i].requests[k], requests_checked)
                    /\ ~InReqSet(refs[i].requests[k], st2.to_check)
             THEN st2
             ELSE ReferrerLoop_CapEndsAll(st2, source_req, refs, i + 1)

\* add_requests, lines 117-129: the allowed referrers, in order
RECURSIVE ReferrerLoop(_, _, _, _)
ReferrerLoop(st, source_req, refs, i) ==
    IF i > Len(refs) THEN st
    ELSE LET url == refs[i].page_url
             prf == Touch(st.prf, url, {})
             st1 == [st EXCEPT !.prf = [prf EXCEPT ![url] = ReqSetAdd(@, source_req)]]
         IN  ReferrerLoop(RequestLoop(st1, url, refs[i].requests, 1), source_req, refs, i + 1)

\* ---- the inputs the model draws ----

NumQueries == 3        \* distinct non-empty queries offered per page
MaxAdds == 2           \* add_requests calls that record a source

Http == <<104, 116, 116, 112>>          \* 'http'
File == <<102, 105, 108, 101>>          \* 'file'

\* the query q=<n>
Q(n) == << << <<113>>, <<48 + n>> >> >>

\* A spider is built for the seed http://host/ with no rules, with
\* "Disallow: /p", or with "Disallow: /" and "Allow: /a" (which disallows the
\* seed itself); or for the directory file:///d/ with "Disallow: /p".
HttpSeed == Request(PageUrl(Http, <<47>>), <<>>, FALSE)
FileSeed == Request(PageUrl(File, <<47, 100, 47>>), <<>>, FALSE)

SpiderConfigs ==
    { <<HttpSeed, <<>> >>,
      <<HttpSeed, << <<FALSE, <<47, 112>> >> >> >>,
      <<HttpSeed, << <<FALSE, <<47>> >>, <<TRUE, <<47, 97>> >> >> >>,
      <<FileSeed, << <<FALSE, <<47, 112>> >> >> >> }

Ascending == [i \in 1..NumQueries |-> Q(i)]
Descending == [i \in 1..NumQueries |-> Q(NumQueries + 1 - i)]

\* What a checked document can hold: links to the seed's page with every
\* query, a form that submits to the seed's page (the same requests, found
\* in another order and speculative), links to page 'a' (for file:, a
\* redirect to '/e', which lies outside the tree) and a redirect to 'p/x'.
ReferrersOf(scheme) ==
    IF scheme = Http
    THEN << LinkSet(PageUrl(Http, <<47>>), <<<<>>>> \o Ascending),
            Form(PageUrl(Http, <<47>>), <<Q(2), Q(1)>>),
            LinkSet(PageUrl(Http, <<47, 97>>), Descending),
            Redirect(Request(PageUrl(Http, <<47, 112, 47, 120>>), <<>>, FALSE)) >>
    ELSE << LinkSet(PageUrl(File, <<47, 100, 47>>), <<<<>>>> \o Ascending),
            Form(PageUrl(File, <<47, 100, 47>>), <<Q(2), Q(1)>>),
            Redirect(Request(PageUrl(File, <<47, 101>>), <<>>, FALSE)),
            Redirect(Request(PageUrl(File, <<47, 100, 47, 112, 47, 120>>), <<>>, FALSE)) >>

\* run() hands add_requests a set of referrers, so no referrer comes twice
\* and the order is any. The model offers no referrer, one, or two; two
\* referrers of one page (they share the page's budget) in either order, and
\* a referrer followed by the redirect, which is the last of the catalogue.
ReferrerLists(scheme) ==
    LET all == ReferrersOf(scheme)
    IN  {<<>>}
        \cup { <<all[i]>> : i \in 1..Len(all) }
        \cup { <<all[ij[1]], all[ij[2]]>> :
                 ij \in { ij \in (1..Len(all)) \X (1..Len(all)) :
                            \/ ij[1] < ij[2] /\ ij[2] = Len(all)
                            \/ ij[1] # ij[2] /\ all[ij[1]].page_url = all[ij[2]].page_url } }

\* no robots.py function is being called
NoRobotsCall ==
    /\ call = [fn |-> "none"]
    /\ records_read = <<>>
    /\ parser = ParserStart
    /\ parser_pc = "idle"

\* ---- Spider.__init__ ----
SpiderInit ==
    \E cfg \in SpiderConfigs :
      LET first_req == cfg[1]
          rs == cfg[2]
      IN
        /\ base_url = first_req.page_url
        /\ rules = rs
        /\ requests_to_check = {first_req}
        /\ requests_checked = {}
        /\ queries_per_page = <<>>
        /\ site_graph = <<>>
        /\ page_referred_from = <<>>
        /\ yielded = <<>>
        /\ enqueued = <<>>
        /\ last_call = [op |-> "init", request |-> first_req, referrers |-> <<>>,
                        result |-> "ok"]
        /\ NoRobotsCall

\* ---- Spider.__iter__: one step of the generator ----
IterateSpider ==
    /\ requests_to_check # {}
    /\ LET request == ReqMin(requests_to_check)
       IN  /\ requests_to_check' = ReqSetRemove(requests_to_check, request)
           /\ requests_checked' = ReqSetAdd(requests_checked, request)
           /\ yielded' = Append(yielded, request)
           /\ last_call' = [op |-> "next", request |-> request, referrers |-> <<>>,
                            result |-> "yield"]
    /\ UNCHANGED <<base_url, rules, queries_per_page, site_graph,
                   page_referred_from, enqueued>>

Iterate == IterateSpider /\ UNCHANGED robots_vars

\* (mutant) the referrers are not filtered through referrer_allowed
AddRequestsTo_Unfiltered(source_req, referrers) ==
    IF ReqKey(source_req) \in DOMAIN site_graph
    THEN /\ last_call' = [op |-> "add_requests", request |-> source_req,
                          referrers |-> referrers, result |-> "AssertionError"]
         /\ UNCHANGED <<base_url, rules, requests_to_check, requests_checked,
                        queries_per_page, site_graph, page_referred_from,
                        yielded, enqueued>>
    ELSE LET st == ReferrerLoop([to_check |-> requests_to_check,
                                 qpp |-> queries_per_page,
                                 prf |-> page_referred_from,
                                 enq |-> enqueued],
                                source_req, referrers, 1)
         IN  /\ site_graph' = site_graph @@ (ReqKey(source_req) :> referrers)
             /\ requests_to_check' = st.to_check
             /\ queries_per_page' = st.qpp
             /\ page_referred_from' = st.prf
             /\ enqueued' = st.enq
             /\ last_call' = [op |-> "add_requests", request |-> source_req,
                              referrers |-> referrers, result |-> "ok"]
             /\ UNCHANGED <<base_url, rules, requests_checked, yielded>>

\* (mutant) no assertion: a second call for a source overwrites its entry
AddRequestsTo_NoAssert(source_req, referrers) ==
    LET allowed_referrers == SelectSeq(referrers, referrer_allowed)
        st == ReferrerLoop([to_check |-> requests_to_check,
                            qpp |-> queries_per_page,
                            prf |-> page_referred_from,
                            enq |-> enqueued],
                           source_req, allowed_referrers, 1)
    IN  /\ site_graph' = (ReqKey(source_req) :> allowed_referrers) @@ site_graph
        /\ requests_to_check' = st.to_check
        /\ queries_per_page' = st.qpp
        /\ page_referred_from' = st.prf
        /\ enqueued' = st.enq
        /\ last_call' = [op |-> "add_requests", request |-> source_req,
                         referrers |-> referrers, result |-> "ok"]
        /\ UNCHANGED <<base_url, rules, requests_checked, yielded>>

\* ---- Spider.add_requests ----
AddRequestsTo(source_req, referrers) ==
    LET allowed_referrers == SelectSeq(referrers, referrer_allowed)
    IN  IF ReqKey(source_req) \in DOMAIN site_graph
        THEN \* the assertion of line 114 fails before anything is written
             /\ last_call' = [op |-> "add_requests", request |-> source_req,
                              referrers |-> referrers, result |-> "AssertionError"]
             /\ UNCHANGED <<base_url, rules, requests_to_check, requests_checked,
                            queries_per_page, site_graph, page_referred_from,
                            yielded, enqueued>>
        ELSE LET st == ReferrerLoop([to_check |-> requests_to_check,
                                     qpp |-> queries_per_page,
                                     prf |-> page_referred_from,
                                     enq |-> enqueued],
                                    source_req, allowed_referrers, 1)
             IN  /\ site_graph' = site_graph @@ (ReqKey(source_req) :> allowed_referrers)
                 /\ requests_to_check' = st.to_check
                 /\ queries_per_page' = st.qpp
                 /\ page_referred_from' = st.prf
                 /\ enqueued' = st.enq
                 /\ last_call' = [op |-> "add_requests", request |-> source_req,
                                  referrers |-> referrers, result |-> "ok"]
                 /\ UNCHANGED <<base_url, rules, requests_checked, yielded>>

\* run() calls add_requests for the request the iterator has just yielded
AddSources == IF yielded = <<>> THEN {} ELSE {yielded[Len(yielded)]}

\* add_requests for a request that was yielded and not yet recorded
AddRequests ==
    \E source_req \in AddSources, referrers \in ReferrerLists(base_url.scheme) :
        /\ ReqKey(source_req) \notin DOMAIN site_graph
        /\ Cardinality(DOMAIN site_graph) < MaxAdds
        /\ AddRequestsTo(source_req, referrers)
        /\ UNCHANGED robots_vars

\* add_requests called again for a source that is already recorded
AddRequestsAgain ==
    \E yielded_req \in AddSources, referrers \in ReferrerLists(base_url.scheme) :
      \E source_req \in {yielded_req, [yielded_req EXCEPT !.maybe_bad = ~@]} :
        /\ ReqKey(source_req) \in DOMAIN site_graph
        /\ Len(referrers) <= 1
        /\ AddRequestsTo(source_req, referrers)
        /\ UNCHANGED robots_vars

Init == SpiderInit

Next == Iterate \/ AddRequests \/ AddRequestsAgain

Spec == Init /\ [][Next]_vars

-----------------------------------------------------------------------------
(* Properties of the spider                                                *)

\* The requests with page URL p among the requests rs
OfPage(rs, p) == {r \in rs : r.page_url = p}

\* How many requests add_requests has queued for page URL p
EnqueuedFor(p) == Cardinality({i \in 1..Len(enqueued) : enqueued[i].page_url = p})

\* Every page URL the spider has seen
KnownPages ==
    {r.page_url : r \in requests_to_check \cup requests_checked}
        \cup DOMAIN queries_per_page \cup DOMAIN page_referred_from

\* C1: every request is yielded at most once. A request moves
\* unknown -> to_check -> checked only: what was yielded is exactly what is
\* checked, every yielded request but the seed had been queued by
\* add_requests, no request is both to be checked and checked, and so a
\* checked request is never back in the frontier.
C1_YieldedAtMostOnce ==
    /\ \A i, j \in 1..Len(yielded) : i # j => ~ReqEq(yielded[i], yielded[j])
    /\ \A r \in requests_to_check : ~InReqSet(r, requests_checked)
    /\ \A r \in requests_to_check, s \in requests_to_check : ReqEq(r, s) => r = s
    /\ Range(yielded) = requests_checked
    /\ \A i \in 2..Len(yielded) : yielded[i] \in Range(enqueued)

\* C1 witness: add_requests has just been offered a request that was already
\* checked (and one that was new), after two requests were yielded.
C1_Witness ==
    /\ last_call.op = "add_requests" /\ last_call.result = "ok"
    /\ Len(yielded) >= 2
    /\ \E ref \in Range(site_graph[ReqKey(last_call.request)]) :
          /\ \E r \in Range(ref.requests) : InReqSet(r, requests_checked)
          /\ \E r \in Range(ref.requests) : InReqSet(r, requests_to_check)

\* C2 as stated: for every page URL, at most max_queries_per_page requests
\* have ever been in the frontier.
C2_AtMostCapPerPage ==
    \A p \in KnownPages :
        Cardinality(OfPage(requests_to_check \cup requests_checked, p))
            <= max_queries_per_page

\* C2 amended: for every page URL, add_requests has queued at most
\* max_queries_per_page requests, which is what queries_per_page counts; the
\* seed, queued by the constructor, is not counted, so the seed's page can
\* have had one request more in the frontier.
C2_AtMostCapQueued ==
    \A p \in KnownPages :
        /\ EnqueuedFor(p) <= max_queries_per_page
        /\ EnqueuedFor(p) = (IF p \in DOMAIN queries_per_page THEN queries_per_page[p] ELSE 0)
        /\ Cardinality(OfPage(requests_to_check \cup requests_checked, p))
              = EnqueuedFor(p) + (IF p = base_url THEN 1 ELSE 0)

\* C2 witness: a page's budget is used up and a request for that page, offered
\* by an allowed referrer, was left out.
C2_Witness ==
    \E k \in DOMAIN site_graph : \E ref \in Range(site_graph[k]) :
        /\ EnqueuedFor(ref.page_url) = max_queries_per_page
        /\ \E r \in Range(ref.requests) :
              ~InReqSet(r, requests_to_check \cup requests_checked)

\* the path of a page URL, as referrer_allowed reads it
PathOf(page_url) == IF page_url.path = <<>> THEN <<47>> ELSE page_url.path

\* C3 as stated: every yielded request has a page path that path_allowed
\* accepts under the spider's rules.
C3_YieldedPathAllowed ==
    \A i \in 1..Len(yielded) : path_allowed(PathOf(yielded[i].page_url), rules)

\* C3 amended: every request that add_requests queued, and so every yielded
\* request but the seed, has a page path the rules allow; for a file: root
\* the path lies under the base path and is judged relative to the base
\* directory. The seed is queued by the constructor without a look at the
\* rules.
C3_QueuedPathAllowed ==
    \A r \in Range(enqueued) \cup {yielded[i] : i \in 2..Len(yielded)} :
        IF base_url.scheme = File
        THEN /\ StartsWith(PathOf(r.page_url), PathOf(base_url))
             /\ path_allowed(Slice(PathOf(r.page_url), RIndex(PathOf(base_url), 47)), rules)
        ELSE path_allowed(PathOf(r.page_url), rules)

\* C3 witness: the last add_requests call was offered a referrer the rules
\* (or the tree) reject next to one they allow, and a queued request has been
\* yielded.
C3_Witness ==
    /\ last_call.op = "add_requests" /\ last_call.result = "ok"
    /\ \E ref \in Range(last_call.referrers) : ~referrer_allowed(ref)
    /\ \E ref \in Range(last_call.referrers) :
          referrer_allowed(ref) /\ \E r \in Range(ref.requests) : r \in Range(enqueued)
    /\ Len(yielded) >= 2

\* C4: a step of the iterator yields a request of the frontier that is
\* smaller, in the order on (page_url, sorted query), than every other
\* request of the frontier; the choice is unique and does not read maybe_bad.
C4_YieldsSmallest ==
    [][ Len(yielded') = Len(yielded) + 1 =>
          LET r == yielded'[Len(yielded')]
          IN  /\ r \in requests_to_check
              /\ \A s \in requests_to_check \ {r} :
                    \/ UrlLt(r.page_url, s.page_url)
                    \/ r.page_url = s.page_url /\ QueryLt(r.query, s.query)
              /\ requests_to_check' = requests_to_check \ {r} ]_vars

\* C4 witness: a request was yielded from a frontier that held more requests,
\* speculative and not speculative ones.
C4_Witness ==
    /\ last_call.op = "next"
    /\ \E s \in requests_to_check : s.maybe_bad
    /\ \E s \in requests_to_check : ~s.maybe_bad

\* C5: an add_requests call for a source that is already recorded in
\* site_graph ends with an assertion error and leaves the spider's sets and
\* maps as they were.
C5_SecondAddFails ==
    [][ (last_call'.op = "add_requests"
            /\ ReqKey(last_call'.request) \in DOMAIN site_graph)
        => /\ last_call'.result = "AssertionError"
           /\ UNCHANGED <<requests_to_check, requests_checked, queries_per_page,
                          site_graph, page_referred_from>> ]_vars

\* C5 witness: a second call has failed, for a source whose first call
\* recorded referrers, and the second call offered referrers too.
C5_Witness ==
    /\ last_call.op = "add_requests" /\ last_call.result = "AssertionError"
    /\ site_graph[ReqKey(last_call.request)] # <<>>
    /\ last_call.referrers # <<>>

-----------------------------------------------------------------------------
(* The functions of robots.py, called on their own                         *)

\* no spider has been constructed
NoSpider ==
    /\ base_url = HttpSeed.page_url
    /\ rules = <<>>
    /\ requests_to_check = {}
    /\ requests_checked = {}
    /\ queries_per_page = <<>>
    /\ site_graph = <<>>
    /\ page_referred_from = <<>>
    /\ yielded = <<>>
    /\ enqueued = <<>>
    /\ last_call = [op |-> "none", request |-> HttpSeed, referrers |-> <<>>,
                    result |-> "none"]

\* no parse_robots_txt call is under way
NoParser ==
    /\ records_read = <<>>
    /\ parser = ParserStart
    /\ parser_pc = "idle"

\* all sequences over S of length at most n
SeqsUpTo(S, n) == UNION {[1..k -> S] : k \in 0..n}

\* ---- path_allowed ----

MaxPathLen == 3        \* characters in a path
MaxRules == 3          \* rules in a rule list

\* paths over '/' and 'a' that begin with '/'
Paths == {p \in SeqsUpTo({47, 97}, MaxPathLen) : p # <<>> /\ p[1] = 47}

\* The prefixes rules carry: '/', '//', '/a'. parse_robots_txt stores no rule
\* with an empty prefix (line 130).
RulePrefixes == {<<47>>, <<47, 47>>, <<47, 97>>}

RuleLists == SeqsUpTo(BOOLEAN \X RulePrefixes, MaxRules)

PathAllowedInit ==
    /\ NoSpider /\ NoParser
    /\ \E path \in Paths, rs \in RuleLists :
          call = [fn |-> "path_allowed", path |-> path, rules |-> rs, result |-> <<>>]

PathAllowedCall ==
    /\ call.fn = "path_allowed" /\ call.result = <<>>
    /\ call' = [call EXCEPT !.result = <<path_allowed(call.path, call.rules)>>]
    /\ UNCHANGED <<spider_vars, records_read, parser, parser_pc>>

SpecPathAllowed == PathAllowedInit /\ [][PathAllowedCall]_vars

\* the positions of the rules whose prefix is a prefix of path
Matching(path, rs) == {i \in 1..Len(rs) : StartsWith(path, rs[i][2])}

\* C6: path_allowed returns the allow flag of the rule with the longest
\* prefix that is a prefix of the path, wherever that rule stands in the
\* list (of rules with the same prefix, the first), and TRUE when no rule's
\* prefix is a prefix of the path.
C6_LongestPrefixWins ==
    (call.fn = "path_allowed" /\ call.result # <<>>) =>
        LET rs == call.rules
            m == Matching(call.path, rs)
        IN  IF m = {}
            THEN call.result[1] = TRUE
            ELSE \E i \in m :
                    /\ \A j \in m : Len(rs[j][2]) <= Len(rs[i][2])
                    /\ \A j \in m : j < i => rs[j][2] # rs[i][2]
                    /\ call.result[1] = rs[i][1]

\* C6 witness: path_allowed has returned the flag of a rule that stands
\* after a matching rule with a shorter prefix and the opposite flag, and
\* before another such rule.
C6_Witness ==
    /\ call.fn = "path_allowed" /\ call.result # <<>>
    /\ LET rs == call.rules
           m == Matching(call.path, rs)
       IN  \E i, j, k \in m :
              /\ j < i /\ i < k
              /\ Len(rs[j][2]) < Len(rs[i][2]) /\ Len(rs[k][2]) < Len(rs[i][2])
              /\ rs[j][1] # rs[i][1] /\ rs[k][1] # rs[i][1]
              /\ call.result[1] = rs[i][1]

\* ---- lookup_robots_rules ----

MaxEntries == 3        \* entries in a rules map

\* the names of a rules map: 'a', 'ab', 'abc', 'b', '*' (case-folded, line 109)
EntryNames == {<<97>>, <<97, 98>>, <<97, 98, 99>>, <<98>>, <<42>>}

\* the rules an entry carries in the model name the entry: Disallow: /<name>
RulesNaming(name) == << <<FALSE, <<47>> \o name>> >>

\* rules maps: the names differ, the order is any
RulesMaps ==
    { [i \in 1..Len(names) |-> <<names[i], RulesNaming(names[i])>>] :
        names \in {ns \in SeqsUpTo(EntryNames, MaxEntries) :
                     \A i, j \in 1..Len(ns) : i # j => ns[i] # ns[j]} }

\* the agent names looked up: 'a', 'A', 'ab', 'aB', 'abc', 'AbCd', 'b', 'c'
AgentNames ==
    {<<97>>, <<65>>, <<97, 98>>, <<97, 66>>, <<97, 98, 99>>, <<65, 98, 67, 100>>,
     <<98>>, <<99>>}

LookupInit ==
    /\ NoSpider /\ NoParser
    /\ \E rules_map \in RulesMaps, user_agent \in AgentNames :
          call = [fn |-> "lookup_robots_rules", rules_map |-> rules_map,
                  user_agent |-> user_agent, result |-> <<>>]

LookupCall ==
    /\ call.fn = "lookup_robots_rules" /\ call.result = <<>>
    /\ call' = [call EXCEPT !.result = <<lookup_robots_rules(call.rules_map, call.user_agent)>>]
    /\ UNCHANGED <<spider_vars, records_read, parser, parser_pc>>

SpecLookup == LookupInit /\ [][LookupCall]_vars

\* the rules of the first of the entries at the positions hits, else those
\* of '*', else none
FirstEntry(rules_map, hits) ==
        IF hits # {}
        THEN rules_map[CHOOSE i \in hits : \A j \in hits : i <= j][2]
        ELSE IF \E i \in 1..Len(rules_map) : rules_map[i][1] = <<42>>
        THEN rules_map[CHOOSE i \in 1..Len(rules_map) : rules_map[i][1] = <<42>>][2]
        ELSE <<>>

\* C7 as stated: lookup_robots_rules returns the rules of the first entry
\* whose name is a prefix of the case-folded agent name, else the rules of
\* '*', else no rules.
C7_KeyIsPrefixOfAgent ==
    (call.fn = "lookup_robots_rules" /\ call.result # <<>>) =>
        call.result[1] =
            FirstEntry(call.rules_map,
                       {i \in 1..Len(call.rules_map) :
                            StartsWith(CaseFold(call.user_agent), call.rules_map[i][1])})

\* C7 amended: lookup_robots_rules returns the rules of the first entry
\* whose name begins with the case-folded agent name (the agent name is the
\* prefix, the entry's name may be longer), else the rules of '*', else no
\* rules.
C7_AgentIsPrefixOfKey ==
    (call.fn = "lookup_robots_rules" /\ call.result # <<>>) =>
        call.result[1] =
            FirstEntry(call.rules_map,
                       {i \in 1..Len(call.rules_map) :
                            StartsWith(call.rules_map[i][1], CaseFold(call.user_agent))})

\* C7 witness: the lookup has returned the rules of an entry that is not the
\* first of the map, whose name is longer than the agent name and is spelled
\* in another case, while an earlier entry's name is a prefix of the agent
\* name.
C7_Witness ==
    /\ call.fn = "lookup_robots_rules" /\ call.result # <<>>
    /\ \E i, j \in 1..Len(call.rules_map) :
          /\ j < i
          /\ call.result[1] = call.rules_map[i][2]
          /\ Len(call.rules_map[i][1]) > Len(call.user_agent)
          /\ CaseFold(call.user_agent) # call.user_agent
          /\ StartsWith(CaseFold(call.user_agent), call.rules_map[j][1])

\* ---- unescape_path ----

MaxPieces == 3         \* pieces a path is put together from

\* What a rule path is put together from: the literals '/' and 'a'; the
\* escapes %41 (A), %2f and %2F (/), %25 (%), %c2%a2 (U+00A2), %e2%82%ac
\* (U+20AC), %f0%90%8d%88 (U+10348); and the broken escapes %, %4, %4x, %-3,
\* %+3, %80 (no lead byte), %e2%82 (a continuation byte missing), %e2%41 (a
\* continuation byte out of range), %c0%80 (overlong).
PathPieces ==
    { <<47>>, <<97>>,
      <<37, 52, 49>>, <<37, 50, 102>>, <<37, 50, 70>>, <<37, 50, 53>>,
      <<37, 99, 50, 37, 97, 50>>,
      <<37, 101, 50, 37, 56, 50, 37, 97, 99>>,
      <<37, 102, 48, 37, 57, 48, 37, 56, 100, 37, 56, 56>>,
      <<37>>, <<37, 52>>, <<37, 52, 120>>, <<37, 45, 51>>, <<37, 43, 51>>,
      <<37, 56, 48>>, <<37, 101, 50, 37, 56, 50>>, <<37, 101, 50, 37, 52, 49>>,
      <<37, 99, 48, 37, 56, 48>> }

RECURSIVE Concat(_, _)
Concat(pieces, i) == IF i > Len(pieces) THEN <<>> ELSE pieces[i] \o Concat(pieces, i + 1)

EscapedPaths == {Concat(pieces, 1) : pieces \in SeqsUpTo(PathPieces, MaxPieces)}

UnescapeInit ==
    /\ NoSpider /\ NoParser
    /\ \E path \in EscapedPaths :
          call = [fn |-> "unescape_path", path |-> path, result |-> <<>>]

UnescapeCall ==
    /\ call.fn = "unescape_path" /\ call.result = <<>>
    /\ call' = [call EXCEPT !.result = <<unescape_path(call.path)>>]
    /\ UNCHANGED <<spider_vars, records_read, parser, parser_pc>>

SpecUnescape == UnescapeInit /\ [][UnescapeCall]_vars

\* What percent-decoding a path means, read off the path from left to right:
\* an escape is '%' and two hex digits; a byte below 0x80 stands for its
\* character, '/' staying '%2f'; a lead byte 0xC0..0xF7 takes the one, two or
\* three escaped continuation bytes 0x80..0xBF that follow and stands for the
\* character they encode in UTF-8. ok is FALSE when an escape is malformed.
EscapeAt(s, i) ==
    IF i + 2 <= Len(s) /\ s[i] = 37 /\ IsHexDigit(s[i + 1]) /\ IsHexDigit(s[i + 2])
    THEN 16 * HexDigit(s[i + 1]) + HexDigit(s[i + 2])
    ELSE -1

RECURSIVE Decoded(_, _, _)
Decoded(s, i, out) ==
    IF i > Len(s) THEN [ok |-> TRUE, path |-> out]
    ELSE IF s[i] # 37 THEN Decoded(s, i + 1, Append(out, s[i]))
    ELSE LET first == EscapeAt(s, i)
             more == IF first \in 192..223 THEN 1
                     ELSE IF first \in 224..239 THEN 2
                     ELSE IF first \in 240..247 THEN 3 ELSE 0
             bytes == [k \in 1..(more + 1) |-> EscapeAt(s, i + 3 * (k - 1))]
         IN  IF first = -1 THEN [ok |-> FALSE]
             ELSE IF first = 47 THEN Decoded(s, i + 3, out \o <<37, 50, 102>>)
             ELSE IF first < 128 THEN Decoded(s, i + 3, Append(out, first))
             ELSE IF more = 0 THEN [ok |-> FALSE]
             ELSE IF \E k \in 2..(more + 1) : bytes[k] \notin 128..191 THEN [ok |-> FALSE]
             ELSE IF Utf8Decode(bytes) = -1 THEN [ok |-> FALSE]
             ELSE Decoded(s, i + 3 * (more + 1), Append(out, Utf8Decode(bytes)))

WellFormed(path) == Decoded(path, 1, <<>>).ok

\* C8: for a path whose escapes are all well formed, unescape_path returns
\* the path with every escape replaced by the character it encodes, '/'
\* staying '%2f'.
C8_UnescapesEveryEscape ==
    (call.fn = "unescape_path" /\ call.result # <<>> /\ WellFormed(call.path)) =>
        /\ call.result[1].ok
        /\ call.result[1].path = Decoded(call.path, 1, <<>>).path

\* C8, the case the tests cover: a path whose escapes are well formed and
\* are each followed by two characters that are not part of an escape, or by
\* the end of the path, is decoded in full.
C8_SeparatedEscapes ==
    (call.fn = "unescape_path" /\ call.result # <<>> /\ WellFormed(call.path)
        /\ call.path \in {Concat(<<a, <<47, 97>>, b>>, 1) : a, b \in PathPieces}) =>
        /\ call.result[1].ok
        /\ call.result[1].path = Decoded(call.path, 1, <<>>).path

\* ---- parse_robots_txt ----

MaxTokens == 4         \* lines with a field in a robots.txt

\* The lines of the robots.txt files the model reads: user-agent lines for
\* 'a', 'A' and 'b'; Disallow: /x, Allow: /y, Disallow: with no path; a
\* rule with the broken escape %4 at its end, once after '/' and once after
\* the escape %41; and a line with a field that robots.txt does not define.
Lines ==
    { [field |-> "user-agent", value |-> <<97>>],
      [field |-> "user-agent", value |-> <<65>>],
      [field |-> "user-agent", value |-> <<98>>],
      [field |-> "disallow", value |-> <<47, 120>>],
      [field |-> "allow", value |-> <<47, 121>>],
      [field |-> "disallow", value |-> <<>>],
      [field |-> "disallow", value |-> <<47, 37, 52>>],
      [field |-> "disallow", value |-> <<47, 37, 52, 49, 37, 52>>],
      [field |-> "crawl-delay", value |-> <<49>>] }

RECURSIVE TokensIn(_, _)
TokensIn(recs, r) == IF r > Len(recs) THEN 0 ELSE Len(recs[r]) + TokensIn(recs, r + 1)

\* scan_robots_txt yields no empty record (lines 59, 74)
RecordComplete ==
    IF records_read = <<>> THEN TRUE ELSE records_read[Len(records_read)] # <<>>

ParseInit ==
    /\ NoSpider
    /\ call = [fn |-> "none"]
    /\ records_read = <<>>
    /\ parser = ParserStart
    /\ parser_pc = "records"

\* the outer loop takes the next record, which a blank line has ended
ParseNextRecord ==
    /\ parser_pc = "records" /\ RecordComplete
    /\ TokensIn(records_read, 1) < MaxTokens
    /\ records_read' = Append(records_read, <<>>)
    /\ parser' = StartRecord(parser)
    /\ UNCHANGED <<spider_vars, call, parser_pc>>

\* the inner loop takes the next token of the record
ParseNextToken ==
    /\ parser_pc = "records" /\ records_read # <<>>
    /\ TokensIn(records_read, 1) < MaxTokens
    /\ \E line \in Lines :
          LET tok == [lineno |-> Len(records_read) + TokensIn(records_read, 1),
                      field |-> line.field, value |-> line.value]
          IN  /\ records_read' = [records_read EXCEPT ![Len(records_read)] = Append(@, tok)]
              /\ parser' = ParseToken(parser, tok)
    /\ UNCHANGED <<spider_vars, call, parser_pc>>

\* the records are exhausted: return result
ParseReturn ==
    /\ parser_pc = "records" /\ RecordComplete
    /\ parser_pc' = "done"
    /\ UNCHANGED <<spider_vars, call, records_read, parser>>

ParseNext == ParseNextRecord \/ ParseNextToken \/ ParseReturn

SpecParse == ParseInit /\ [][ParseNext]_vars

\* the tokens of all records, in the order of the file
RECURSIVE Flat(_, _)
Flat(recs, r) == IF r > Len(recs) THEN <<>> ELSE recs[r] \o Flat(recs, r + 1)

IsRuleLine(tok) == tok.field \in {"allow", "disallow"}

\* an allow/disallow line whose path holds a malformed escape
MalformedLine(tok) == IsRuleLine(tok) /\ ~WellFormed(tok.value)

\* the records without the lines that hold a malformed escape
WithoutMalformed(recs) ==
    [r \in 1..Len(recs) |-> SelectSeq(recs[r], LAMBDA tok : ~MalformedLine(tok))]

LogAbout(log, linenos) == SelectSeq(log, LAMBDA entry : entry.lineno \in linenos)

\* C9: a rule line with a malformed escape contributes no rule: the returned
\* map is the one the records without these lines give, one error is logged
\* for each of these lines, and what is logged about the other lines is
\* what the records without these lines log.
C9_MalformedLineDropped ==
    parser_pc = "done" =>
        LET all == Flat(records_read, 1)
            bad == {all[i].lineno : i \in {j \in 1..Len(all) : MalformedLine(all[j])}}
            others == {all[i].lineno : i \in 1..Len(all)} \ bad
            clean == parse_robots_txt(WithoutMalformed(records_read))
        IN  /\ RulesMapOf(parser) = RulesMapOf(clean)
            /\ \A l \in bad :
                  /\ Len(LogAbout(parser.log, {l})) = 1
                  /\ LogAbout(parser.log, {l})[1].level = "error"
            /\ LogAbout(parser.log, others) = clean.log

\* C9 for the malformed escapes that unescape_path reports: the same
\* statement, for the files in which unescape_path raises on every line that
\* holds a malformed escape.
C9_ReportedEscapeDropped ==
    (parser_pc = "done"
        /\ \A tok \in Range(Flat(records_read, 1)) :
              MalformedLine(tok) => ~unescape_path(tok.value).ok) =>
        LET all == Flat(records_read, 1)
            bad == {all[i].lineno : i \in {j \in 1..Len(all) : MalformedLine(all[j])}}
            others == {all[i].lineno : i \in 1..Len(all)} \ bad
            clean == parse_robots_txt(WithoutMalformed(records_read))
        IN  /\ RulesMapOf(parser) = RulesMapOf(clean)
            /\ \A l \in bad :
                  /\ Len(LogAbout(parser.log, {l})) = 1
                  /\ LogAbout(parser.log, {l})[1].level = "error"
            /\ LogAbout(parser.log, others) = clean.log

\* the rules a group collects from position i of its record on: every rule
\* line with a path, up to the end of the record or to the user-agent line
\* that follows collected rules
RECURSIVE GroupRules(_, _, _)
GroupRules(record, i, collected) ==
    IF i > Len(record) THEN collected
    ELSE IF record[i].field = "user-agent"
    THEN IF collected # <<>> THEN collected ELSE GroupRules(record, i + 1, collected)
    ELSE IF IsRuleLine(record[i]) /\ unescape_path(record[i].value).ok
              /\ unescape_path(record[i].value).path # <<>>
    THEN GroupRules(record, i + 1,
                    Append(collected, <<record[i].field = "allow",
                                        unescape_path(record[i].value).path>>))
    ELSE GroupRules(record, i + 1, collected)

\* the positions <<record, line>> of the user-agent lines that name `name`
Naming(recs, name) ==
    {ri \in {<<r, i>> : r \in 1..Len(recs), i \in 1..MaxTokens + 1} :
        /\ ri[2] <= Len(recs[ri[1]])
        /\ recs[ri[1]][ri[2]].field = "user-agent"
        /\ CaseFold(recs[ri[1]][ri[2]].value) = name}

Before(ri, sj) == ri[1] < sj[1] \/ (ri[1] = sj[1] /\ ri[2] < sj[2])

FirstNaming(recs, name) ==
    CHOOSE ri \in Naming(recs, name) : \A sj \in Naming(recs, name) \ {ri} : Before(ri, sj)

NamesIn(recs) ==
    {CaseFold(tok.value) : tok \in {t \in Range(Flat(recs, 1)) : t.field = "user-agent"}}

AddsRule(tok) ==
    IsRuleLine(tok) /\ unescape_path(tok.value).ok /\ unescape_path(tok.value).path # <<>>

RuleOf(tok) == <<tok.field = "allow", unescape_path(tok.value).path>>

\* the user-agent lines of a record that line i belongs to: the last
\* user-agent line before i and the user-agent lines before that one with no
\* line between them for which Ends holds
RunBefore(record, i, ends) ==
    LET uas == {j \in 1..(i - 1) : record[j].field = "user-agent"}
    IN  IF uas = {} THEN {}
        ELSE LET last == CHOOSE j \in uas : \A k \in uas : k <= j
             IN  {j \in uas : \A k \in (j + 1)..(last - 1) : k \notin ends}

\* the rules of the lines of a record, from line i on, whose run of
\* user-agent lines holds line f
RECURSIVE RulesOfRun(_, _, _, _)
RulesOfRun(record, f, i, ends) ==
    IF i > Len(record) THEN <<>>
    ELSE (IF AddsRule(record[i]) /\ f \in RunBefore(record, i, ends)
          THEN <<RuleOf(record[i])>> ELSE <<>>)
         \o RulesOfRun(record, f, i + 1, ends)

\* C11: every allow/disallow line with a non-empty path is added, in line
\* order, to the rules of exactly the agents first named in the run of
\* user-agent lines that precedes it in its record; an allow/disallow line
\* between two user-agent lines puts them in different groups, and a rule
\* line with no user-agent line before it in its record goes to no agent.
C11_RulesFollowUserAgentRun ==
    parser_pc = "done" =>
        \A name \in NamesIn(records_read) :
            LET first == FirstNaming(records_read, name)
                record == records_read[first[1]]
            IN  MapGet(RulesMapOf(parser), name, <<>>)
                    = RulesOfRun(record, first[2], 1,
                                 {k \in 1..Len(record) : IsRuleLine(record[k])})

\* C11 for the groups the code forms: the same statement with the groups
\* divided only by the allow/disallow lines that added a rule (a line with
\* no path, or with an escape that unescape_path rejects, divides nothing).
C11_RulesFollowCollectedRules ==
    parser_pc = "done" =>
        \A name \in NamesIn(records_read) :
            LET first == FirstNaming(records_read, name)
                record == records_read[first[1]]
            IN  MapGet(RulesMapOf(parser), name, <<>>)
                    = RulesOfRun(record, first[2], 1,
                                 {k \in 1..Len(record) : AddsRule(record[k])})

\* ---- scan_robots_txt ----

MaxLines == 5          \* lines in a robots.txt

\* The lines the scanner is given: an empty line, a line of one space, an
\* indented comment ' #c', 'a:b', ' A: b #c' (indented, with a comment and
\* spaces around the value) and 'ab#:' (no ':' before the comment).
ScanLines ==
    { <<>>, <<32>>, <<32, 35, 99>>, <<97, 58, 98>>,
      <<32, 65, 58, 32, 98, 32, 35, 99>>, <<97, 98, 35, 58>> }

ScanInit ==
    /\ NoSpider /\ NoParser
    /\ \E lines \in SeqsUpTo(ScanLines, MaxLines) : call = ScanStart(lines)

\* the generator reads the next line
ScanNextLine ==
    /\ call.fn = "scan_robots_txt" /\ call.result = <<>>
    /\ call.lineno < Len(call.lines)
    /\ call' = ScanLine(call)
    /\ UNCHANGED <<spider_vars, records_read, parser, parser_pc>>

\* the lines are exhausted: the generator yields what is left and ends
ScanReturn ==
    /\ call.fn = "scan_robots_txt" /\ call.result = <<>>
    /\ call.lineno = Len(call.lines)
    /\ call' = [ScanEnd(call) EXCEPT !.result = <<"StopIteration">>]
    /\ UNCHANGED <<spider_vars, records_read, parser, parser_pc>>

ScanNext == ScanNextLine \/ ScanReturn

SpecScan == ScanInit /\ [][ScanNext]_vars

\* what a line is, read off its characters
BlankLine(line) == \A i \in 1..Len(line) : IsSpace(line[i])

CommentOnlyLine(line) ==
    \E i \in 1..Len(line) : line[i] = 35 /\ \A j \in 1..(i - 1) : IsSpace(line[j])

\* the position of the ':' that ends the field: the first ':' of a line that
\* is neither blank nor a comment, with no '#' before it; 0 when there is none
FieldEnd(line) ==
    IF ~BlankLine(line) /\ ~CommentOnlyLine(line)
         /\ \E i \in 1..Len(line) : line[i] = 58 /\ \A j \in 1..(i - 1) : line[j] \notin {35, 58}
    THEN CHOOSE i \in 1..Len(line) : line[i] = 58 /\ \A j \in 1..(i - 1) : line[j] \notin {35, 58}
    ELSE 0

\* C12: the scanner yields no empty record; the tokens are those of the
\* lines with a ':' (outside a comment), each with its 1-based line number,
\* in line order; and two tokens are in one record exactly when no blank
\* line lies between their lines, so comment-only lines and lines without
\* ':' neither give a token nor split a record.
C12_RecordsSplitAtBlankLines ==
    (call.fn = "scan_robots_txt") =>
        /\ \A r \in 1..Len(call.yielded) : call.yielded[r] # <<>>
        /\ call.result # <<>> =>
              LET tokens == Flat(call.yielded, 1)
                  RecordOf(l) == CHOOSE r \in 1..Len(call.yielded) :
                                    \E t \in Range(call.yielded[r]) : t.lineno = l
              IN  /\ \A i \in 1..(Len(tokens) - 1) : tokens[i].lineno < tokens[i + 1].lineno
                  /\ {tokens[i].lineno : i \in 1..Len(tokens)}
                        = {l \in 1..Len(call.lines) : FieldEnd(call.lines[l]) # 0}
                  /\ \A l1, l2 \in {tokens[i].lineno : i \in 1..Len(tokens)} :
                        l1 < l2 =>
                          ((RecordOf(l1) = RecordOf(l2))
                              <=> ~\E l \in (l1 + 1)..(l2 - 1) : BlankLine(call.lines[l]))

\* C12 witness: the scanner has ended after yielding two records, one of
\* them with two tokens that have a comment-only line or a line without ':'
\* between them.
C12_Witness ==
    /\ call.fn = "scan_robots_txt" /\ call.result # <<>>
    /\ Len(call.yielded) = 2
    /\ \E r \in 1..2 : \E t1, t2 \in Range(call.yielded[r]) :
          /\ t1.lineno + 2 = t2.lineno
          /\ FieldEnd(call.lines[t1.lineno + 1]) = 0
          /\ ~BlankLine(call.lines[t1.lineno + 1])

-----------------------------------------------------------------------------
(* Request on its own                                                      *)

MaxParams == 2         \* elements in a query string

\* The page part of a URL: 'http://h' with no path, with '/' or with '/p'.
UrlPaths == {<<>>, <<47>>, <<47, 112>>}

\* The elements of a query string: 'a=1', 'b=', '%61=1' (the pair of 'a=1'
\* in another spelling), 'a+b=%2B', '=%26%3D' (no key, the value '&='),
\* '%zz=%FF' (a '%' that starts no escape, and a byte that is not UTF-8),
\* U+00E9 '=%C3%A9' (the same character raw and escaped), 'a=b=c'; and the
\* elements without '=': 'a' and the empty element.
QueryElems ==
    { <<97, 61, 49>>, <<98, 61>>, <<37, 54, 49, 61, 49>>,
      <<97, 43, 98, 61, 37, 50, 66>>, <<61, 37, 50, 54, 37, 51, 68>>,
      <<37, 122, 122, 61, 37, 70, 70>>, <<233, 61, 37, 67, 51, 37, 65, 57>>,
      <<97, 61, 98, 61, 99>>, <<97>>, <<>> }

\* the URL 'http://h<path>?<elements joined by &>#f'; no '?' without
\* elements, no '#f' unless asked for
MakeUrl(path, elems, fragment) ==
    Http \o <<58, 47, 47>> \o Host \o path
        \o (IF elems = <<>> THEN <<>> ELSE <<63>> \o Join(elems, <<38>>))
        \o (IF fragment THEN <<35, 102>> ELSE <<>>)

Reversed(s) == [i \in 1..Len(s) |-> s[Len(s) + 1 - i]]

\* A second URL for the first: the same elements in reverse order or
\* rotated, with the other choice of fragment; the same with the first
\* element twice; the same on another path.
UrlVariants(path, elems, fragment) ==
    { [how |-> "reordered", url |-> MakeUrl(path, Reversed(elems), ~fragment)],
      [how |-> "reordered",
       url |-> MakeUrl(path, IF elems = <<>> THEN <<>> ELSE Tail(elems) \o <<Head(elems)>>,
                       fragment)],
      [how |-> "duplicate",
       url |-> MakeUrl(path, IF elems = <<>> THEN <<<<97, 61, 49>>>> ELSE <<Head(elems)>> \o elems,
                       fragment)],
      [how |-> "other page", url |-> MakeUrl(path \o <<47, 113>>, elems, fragment)] }

RequestInit ==
    /\ NoSpider /\ NoParser
    /\ \E path \in UrlPaths, elems \in SeqsUpTo(QueryElems, MaxParams), fragment \in BOOLEAN :
         \E variant \in UrlVariants(path, elems, fragment), maybe_bad \in BOOLEAN :
            call = [fn |-> "Request", url |-> MakeUrl(path, elems, fragment),
                    other_url |-> variant.url, how |-> variant.how,
                    maybe_bad |-> maybe_bad,
                    result |-> <<>>, other |-> <<>>, text |-> <<>>, again |-> <<>>]

\* Request.from_url(url)
FromUrlCall ==
    /\ call.fn = "Request" /\ call.result = <<>>
    /\ call' = [call EXCEPT !.result = <<from_url(call.url)>>]
    /\ UNCHANGED <<spider_vars, records_read, parser, parser_pc>>

\* Request.from_url(other_url), and a copy of it made with maybe_bad
FromOtherUrlCall ==
    /\ call.fn = "Request" /\ call.other = <<>>
    /\ LET parsed == from_url(call.other_url)
       IN  call' = [call EXCEPT !.other =
                       <<IF parsed.ok
                         THEN [parsed EXCEPT !.request =
                                  Request(@.page_url, @.query, call.maybe_bad)]
                         ELSE parsed>>]
    /\ UNCHANGED <<spider_vars, records_read, parser, parser_pc>>

\* str(request)
StrCall ==
    /\ call.fn = "Request" /\ call.result # <<>> /\ call.text = <<>>
    /\ call.result[1].ok
    /\ call' = [call EXCEPT !.text = <<RequestStr(call.result[1].request)>>]
    /\ UNCHANGED <<spider_vars, records_read, parser, parser_pc>>

\* Request.from_url(str(request))
FromUrlAgainCall ==
    /\ call.fn = "Request" /\ call.text # <<>> /\ call.again = <<>>
    /\ call' = [call EXCEPT !.again = <<from_url(call.text[1])>>]
    /\ UNCHANGED <<spider_vars, records_read, parser, parser_pc>>

RequestNext == FromUrlCall \/ FromOtherUrlCall \/ StrCall \/ FromUrlAgainCall

SpecRequest == RequestInit /\ [][RequestNext]_vars

\* the (key, value) pairs of a URL's query string in the order written
PairsWritten(url) ==
    IF urlsplit(url).query = <<>> THEN <<>>
    ELSE QueryOf(Split(urlsplit(url).query, 38), 1).query

\* how often x occurs in the sequence s
Count(s, x) == Cardinality({i \in 1..Len(s) : s[i] = x})

SameBag(s, t) == Len(s) = Len(t) /\ \A x \in Range(s) \cup Range(t) : Count(s, x) = Count(t, x)

\* C13: two URLs that differ only in the order of their query parameters
\* (and in their fragment) give equal requests with the same hash, or both
\* give ValueError. In general two requests are equal exactly when their
\* page URLs are equal and their pairs are the same with the same
\* multiplicities, whatever maybe_bad is; equal requests have the same hash;
\* of two requests exactly one is smaller or they are equal; and the query
\* of a request holds every pair written, duplicates included, sorted.
C13_EqualUpToQueryOrder ==
    (call.fn = "Request" /\ call.result # <<>> /\ call.other # <<>>) =>
        LET r == call.result[1]
            o == call.other[1]
        IN  /\ call.how = "reordered" => r.ok = o.ok
            /\ (r.ok /\ o.ok) =>
                  /\ call.how = "reordered" => ReqEq(r.request, o.request)
                  /\ ReqEq(r.request, o.request)
                        <=> /\ r.request.page_url = o.request.page_url
                            /\ SameBag(PairsWritten(call.url), PairsWritten(call.other_url))
                  /\ ReqEq(r.request, o.request) => ReqKey(r.request) = ReqKey(o.request)
                  /\ ReqLt(r.request, o.request) \/ ReqEq(r.request, o.request)
                        \/ ReqLt(o.request, r.request)
                  /\ ~(ReqLt(r.request, o.request) /\ ReqEq(r.request, o.request))
                  /\ ~(ReqLt(o.request, r.request) /\ ReqEq(r.request, o.request))
                  /\ ~(ReqLt(r.request, o.request) /\ ReqLt(o.request, r.request))
                  /\ SameBag(r.request.query, PairsWritten(call.url))
                  /\ \A i \in 1..(Len(r.request.query) - 1) :
                        ~PairLt(r.request.query[i + 1], r.request.query[i])

\* C13 witness: two URLs with the same two different parameters in opposite
\* orders were parsed, the first writes them in descending order, the second
\* request is speculative, and the requests are equal.
C13_Witness ==
    /\ call.fn = "Request" /\ call.result # <<>> /\ call.other # <<>>
    /\ call.how = "reordered"
    /\ call.result[1].ok /\ call.other[1].ok
    /\ call.other[1].request.maybe_bad
    /\ Len(PairsWritten(call.url)) = 2
    /\ PairLt(PairsWritten(call.url)[2], PairsWritten(call.url)[1])
    /\ PairsWritten(call.other_url) = Reversed(PairsWritten(call.url))
    /\ ReqEq(call.result[1].request, call.other[1].request)

Report(url) ==
    [class |-> "Report", url |-> url, ok |-> TRUE, checked |-> "NOT_CHECKED",
     log |-> <<>>, message |-> <<>>, http_error |-> <<>>]

\* Report.log: a level above INFO clears ok
ReportLog(report, level, what) ==
    [report EXCEPT !.ok = IF level \in {"warning", "error"} THEN FALSE ELSE @,
                   !.log = Append(@, <<level, what>>)]

\* FetchFailure.__init__: logs the message as an error
FetchFailure(url, message, http_error) ==
    ReportLog([Report(url) EXCEPT !.class = "FetchFailure", !.message = message,
                                  !.http_error = http_error],
              "error", <<"Failed to fetch", message>>)

\* ---------------------------------------------------------------------
\* fetch.py: open_page

\* the code of a response that has none (a local file)
NoCode == 0

\* urllib.request.Request(url) (line 116) raises ValueError for a URL
\* without a type: no ':', or a '/' before the first ':'
HasUrlType(url) ==
    LET colon == Find(url, 58, 0)
    IN  colon > 0 /\ \A i \in 1..colon : url[i] # 47

\* What _URL_OPENER.open (line 121) does with the request: the response of
\* the server or of the file handler (lines 52-86), which it returns when
\* the status is 2xx or absent and raises as HTTPError otherwise (the
\* redirect handler of lines 39-49 included); or URLError, OSError with or
\* without strerror, or an error of http.client, which is neither.
OpenerResult(kind, code, retry_after, reason) ==
    [kind |-> kind, code |-> code, retry_after |-> retry_after, reason |-> reason]

\* int(s): white space around an optional sign and decimal digits
RECURSIVE DigitsValue(_, _)
DigitsValue(s, acc) ==
    IF s = <<>> THEN acc ELSE DigitsValue(Tail(s), 10 * acc + (s[1] - 48))

IntBase10(s) ==
    LET t == Strip(s)
        signed == t # <<>> /\ t[1] \in {43, 45}
        digits == IF signed THEN Tail(t) ELSE t
    IN  IF digits # <<>> /\ \A i \in 1..Len(digits) : digits[i] \in 48..57
        THEN [ok |-> TRUE,
              value |-> IF signed /\ t[1] = 45 THEN 0 - DigitsValue(digits, 0)
                        ELSE DigitsValue(digits, 0)]
        ELSE Raise("ValueError")

\* lines 125-135: the seconds to wait after a 503
RetrySeconds(r) ==
    IF r.retry_after # <<>> /\ IntBase10(r.retry_after[1]).ok
    THEN IntBase10(r.retry_after[1]).value
    ELSE 5

\* how a call of open_page ends
Returned(code) ==
    [kind |-> "returned", exception |-> "", code |-> code, failure |-> <<>>]

RaisedOther(exception) ==
    [kind |-> "raised", exception |-> exception, code |-> NoCode, failure |-> <<>>]

RaisedFailure(failure) ==
    [kind |-> "raised", exception |-> "FetchFailure", code |-> NoCode,
     failure |-> <<failure>>]

\* lines 120-151 for one result of the opener that is not a 503
OpenOutcome(url, ignore_client_error, r) ==
    IF r.kind = "response"
    THEN IF r.code = NoCode \/ r.code \in 200..299 THEN Returned(r.code)
         ELSE IF r.code \in 300..399 THEN Returned(r.code)
         ELSE IF r.code = 400 /\ ignore_client_error THEN Returned(r.code)
         ELSE RaisedFailure(FetchFailure(url, <<<<"HTTP error", r.code, r.reason>>>>,
                                         <<r.code>>))
    ELSE IF r.kind = "URLError"
    THEN RaisedFailure(FetchFailure(url, <<r.reason>>, <<>>))
    ELSE IF r.kind = "OSError"
    THEN RaisedFailure(FetchFailure(url, r.reason, <<>>))
    ELSE RaisedOther(r.kind)

Is503(r) == r.kind = "response" /\ r.code = 503

\* ---- open_page as a process: inputs
MaxRetries == 3

FetchUrls == {<<104, 116, 116, 112, 58, 47, 47, 104, 47, 120>>,  \* http://h/x
              <<102, 105, 108, 101, 58, 47, 47, 47, 120>>,      \* file:///x
              <<120>>}                                            \* x

Statuses == {200, 204, 301, 399, 400, 404, 500}

\* Retry-After: absent, "7", "0", " 3", "-1", "x" (not a number)
RetryAfterHeaders == {<<>>, <<<<55>>>>, <<<<48>>>>, <<<<32, 51>>>>, <<<<45, 49>>>>, <<<<120>>>>}

OpenerResults ==
    {OpenerResult("response", c, <<>>, <<"reason">>) : c \in Statuses \cup {NoCode}}
    \cup {OpenerResult("response", 503, h, <<"reason">>) : h \in RetryAfterHeaders}
    \cup {OpenerResult("URLError", NoCode, <<>>, <<"refused">>),
          OpenerResult("OSError", NoCode, <<>>, <<<<"reset">>>>),
          OpenerResult("OSError", NoCode, <<>>, <<>>),
          OpenerResult("HTTPException", NoCode, <<>>, <<"bad status line">>)}

OpenPageInit ==
    /\ NoSpider /\ NoParser
    /\ \E url \in FetchUrls, ignore_client_error \in BOOLEAN :
          call = [fn |-> "open_page", url |-> url,
                  ignore_client_error |-> ignore_client_error,
                  pc |-> "start", responses |-> <<>>, slept |-> <<>>,
                  logged |-> <<>>, outcome |-> <<>>]

\* lines 116-118
OpenPageStart ==
    /\ call.fn = "open_page" /\ call.pc = "start"
    /\ call' = IF HasUrlType(call.url) THEN [call EXCEPT !.pc = "open"]
               ELSE [call EXCEPT !.pc = "done",
                                 !.outcome = <<RaisedOther("ValueError")>>]
    /\ UNCHANGED <<spider_vars, records_read, parser, parser_pc>>

\* lines 120-151: one turn of the loop, up to the return, the raise or the
\* call of sleep; sleep raises ValueError for a negative argument
OpenPageOpen ==
    /\ call.fn = "open_page" /\ call.pc = "open"
    /\ \E r \in OpenerResults :
          /\ Is503(r) => Len(call.slept) < MaxRetries
          /\ LET got == [call EXCEPT !.responses = Append(@, r)]
                 unread == r.retry_after # <<>> /\ ~IntBase10(r.retry_after[1]).ok
                 noted == IF unread
                          THEN <<<<"warning", "Parsing of Retry-After dates">>>>
                          ELSE <<>>
                 seconds == RetrySeconds(r)
             IN  call' =
                   IF ~Is503(r)
                   THEN [got EXCEPT !.pc = "done",
                                    !.outcome = <<OpenOutcome(call.url,
                                                   call.ignore_client_error, r)>>]
                   ELSE IF seconds < 0
                   THEN [got EXCEPT !.pc = "done",
                                    !.logged = @ \o noted \o <<<<"info", seconds>>>>,
                                    !.outcome = <<RaisedOther("ValueError")>>]
                   ELSE [got EXCEPT !.pc = "sleep",
                                    !.logged = @ \o noted \o <<<<"info", seconds>>>>,
                                    !.slept = Append(@, seconds)]
    /\ UNCHANGED <<spider_vars, records_read, parser, parser_pc>>

\* line 137: sleep returns
OpenPageWake ==
    /\ call.fn = "open_page" /\ call.pc = "sleep"
    /\ call' = [call EXCEPT !.pc = "open"]
    /\ UNCHANGED <<spider_vars, records_read, parser, parser_pc>>

OpenPageNext == OpenPageStart \/ OpenPageOpen \/ OpenPageWake

SpecOpenPage == OpenPageInit /\ [][OpenPageNext]_vars

\* the seconds the claim names: the parsed number, else 5
ClaimedSeconds(r) ==
    IF r.retry_after # <<>> /\ IntBase10(r.retry_after[1]).ok
    THEN IntBase10(r.retry_after[1]).value ELSE 5

\* C15: a 503 never ends open_page. Each 503 received, whatever its
\* Retry-After header, has been followed by a wait of the parsed number of
\* seconds, else 5, and open_page ends only with the outcome of a response
\* that is not a 503.
C15_Retries503 ==
    call.fn = "open_page" =>
        /\ \A i \in 1..Len(call.responses) :
              Is503(call.responses[i]) =>
                  /\ i <= Len(call.slept)
                  /\ call.slept[i] = ClaimedSeconds(call.responses[i])
        /\ (call.pc = "done" /\ call.responses # <<>>) =>
              LET last == call.responses[Len(call.responses)]
              IN  /\ ~Is503(last)
                  /\ call.outcome =
                        <<OpenOutcome(call.url, call.ignore_client_error, last)>>

\* the same, for 503 responses whose Retry-After is not a negative number
C15_Retries503NotNegative ==
    (call.fn = "open_page"
        /\ \A i \in 1..Len(call.responses) :
              ClaimedSeconds(call.responses[i]) >= 0) => C15_Retries503

\* three 503 responses with different headers were waited for, and the
\* fourth response ended the call
C15_RetriedThrice ==
    /\ call.fn = "open_page" /\ call.pc = "done"
    /\ Len(call.slept) = 3 /\ Cardinality(Range(call.slept)) = 3
    /\ call.outcome # <<>> /\ call.outcome[1].exception = "FetchFailure"


\* the responses after which the claim has open_page return
ClaimedReturn(r, ignore_client_error) ==
    /\ r.kind = "response"
    /\ r.code = 200 \/ r.code \in 300..399 \/ (r.code = 400 /\ ignore_client_error)

\* the results after which the claim has open_page raise FetchFailure
ClaimedFailure(r, ignore_client_error) ==
    \/ r.kind = "response" /\ r.code \in 400..599 /\ r.code # 503
                           /\ ~(r.code = 400 /\ ignore_client_error)
    \/ r.kind \in {"URLError", "OSError", "HTTPException"}

IsFetchFailureOf(out, url) ==
    /\ out.kind = "raised" /\ out.exception = "FetchFailure"
    /\ out.failure[1].url = url
    /\ out.failure[1].message # <<>>

\* C16: open_page returns after status 200, 300-399, and 400 with
\* ignore_client_error; it raises a FetchFailure that holds the URL and a
\* cause after 400 without ignore_client_error, every other 4xx/5xx status
\* and every transport or OS error; and it raises nothing but FetchFailure.
C16_ReturnsOrFetchFailure ==
    (call.fn = "open_page" /\ call.pc = "done") =>
        LET out == call.outcome[1]
            last == call.responses[Len(call.responses)]
        IN  /\ out.kind = "raised" => IsFetchFailureOf(out, call.url)
            /\ (call.responses # <<>> /\ ~Is503(last)) =>
                  /\ ClaimedReturn(last, call.ignore_client_error) =>
                        out = Returned(last.code)
                  /\ ClaimedFailure(last, call.ignore_client_error) =>
                        IsFetchFailureOf(out, call.url)

\* the same for the responses with a status and for URLError and OSError
\* with a message, the URL having a type
C16_StatusOutcomes ==
    (call.fn = "open_page" /\ call.pc = "done" /\ call.responses # <<>>) =>
        LET out == call.outcome[1]
            last == call.responses[Len(call.responses)]
        IN  (~Is503(last) /\ last.kind # "HTTPException"
                          /\ ~(last.kind = "OSError" /\ last.reason = <<>>)) =>
              /\ ClaimedReturn(last, call.ignore_client_error) =>
                    out = Returned(last.code)
              /\ ClaimedFailure(last, call.ignore_client_error) =>
                    /\ IsFetchFailureOf(out, call.url)
                    /\ ~out.failure[1].ok
              /\ ClaimedReturn(last, call.ignore_client_error)
                    \/ ClaimedFailure(last, call.ignore_client_error)
                    \/ (last.kind = "response" /\ out = Returned(last.code))


\* ---------------------------------------------------------------------
\* decode.py

\* Encoding names are strings. The names of the codecs of the model as
\* CodecInfo.name gives them: "ascii", "utf-8", "iso8859-1" and "hex".
AsciiCodec == <<97, 115, 99, 105, 105>>
Utf8Codec == <<117, 116, 102, 45, 56>>
Latin1Codec == <<105, 115, 111, 56, 56, 53, 57, 45, 49>>
HexCodec == <<104, 101, 120>>

\* codecs.lookup first brings the name to lower case with '_' for ' ' and '-'
NormalizeEncoding(encoding) ==
    [i \in 1..Len(encoding) |->
        IF encoding[i] \in {32, 45} THEN 95
        ELSE IF encoding[i] \in 65..90 THEN encoding[i] + 32 ELSE encoding[i]]

\* the aliases (encodings.aliases) of the four codecs that the model uses
CodecAliases ==
    <<  <<<<97, 115, 99, 105, 105>>, AsciiCodec>>, <<<<117, 115, 95, 97, 115, 99, 105, 105>>, AsciiCodec>>,
        <<<<117, 116, 102, 95, 56>>, Utf8Codec>>, <<<<117, 116, 102, 56>>, Utf8Codec>>,
        <<<<108, 97, 116, 105, 110, 95, 49>>, Latin1Codec>>, <<<<105, 115, 111, 56, 56, 53, 57, 95, 49>>, Latin1Codec>>,
        <<<<105, 115, 111, 95, 56, 56, 53, 57, 95, 49>>, Latin1Codec>>,
        <<<<104, 101, 120>>, HexCodec>>, <<<<104, 101, 120, 95, 99, 111, 100, 101, 99>>, HexCodec>>  >>

\* codecs.lookup(encoding): the codec, or LookupError
lookup_codec(encoding) ==
    LET name == NormalizeEncoding(encoding)
        hits == {i \in 1..Len(CodecAliases) : CodecAliases[i][1] = name}
    IN  IF hits = {} THEN Raise("LookupError")
        ELSE [ok |-> TRUE, name |-> CodecAliases[CHOOSE i \in hits : TRUE][2]]

\* lines 52-59: the table of standard names
StandardNames ==
    <<  <<<<97, 115, 99, 105, 105>>, <<117, 115, 45, 97, 115, 99, 105, 105>>>>, <<<<101, 117, 99, 95, 106, 112>>, <<101, 117, 99, 45, 106, 112>>>>, <<<<101, 117, 99, 95, 107, 114>>, <<101, 117, 99, 45, 107, 114>>>>,
        <<<<105, 115, 111, 50, 48, 50, 50, 95, 106, 112>>, <<105, 115, 111, 45, 50, 48, 50, 50, 45, 106, 112>>>>, <<<<105, 115, 111, 50, 48, 50, 50, 95, 106, 112, 95, 50>>, <<105, 115, 111, 45, 50, 48, 50, 50, 45, 106, 112, 45, 50>>>>,
        <<<<105, 115, 111, 50, 48, 50, 50, 95, 107, 114>>, <<105, 115, 111, 45, 50, 48, 50, 50, 45, 107, 114>>>>  >>

standard_codec_name(name) ==
    IF StartsWith(name, <<105, 115, 111, 56, 56, 53, 57>>) THEN <<105, 115, 111, 45, 56, 56, 53, 57>> \o Slice(name, 7)
    ELSE MapGet(StandardNames, name, name)

\* bytes.decode("utf-8", "strict"): the code points of well-formed UTF-8
RECURSIVE Utf8Strict(_, _)
Utf8Strict(data, text) ==
    IF data = <<>> THEN [ok |-> TRUE, text |-> text]
    ELSE LET b == data[1]
             n == IF b < 128 THEN 1 ELSE IF b \in 194..223 THEN 2
                  ELSE IF b \in 224..239 THEN 3 ELSE IF b \in 240..244 THEN 4 ELSE 0
         IN  IF n = 0 \/ Len(data) < n
                \/ \E i \in 2..n : data[i] \notin 128..191
             THEN Raise("UnicodeDecodeError")
             ELSE IF n = 1 THEN Utf8Strict(Tail(data), Append(text, b))
             ELSE IF Utf8Decode(SubSeq(data, 1, n)) = -1 THEN Raise("UnicodeDecodeError")
             ELSE Utf8Strict(Slice(data, n),
                             Append(text, Utf8Decode(SubSeq(data, 1, n))))

\* binascii.unhexlify of the hex codec: pairs of hex digits give bytes
RECURSIVE Unhexlify(_)
Unhexlify(data) ==
    IF data = <<>> THEN <<>>
    ELSE <<16 * HexDigit(data[1]) + HexDigit(data[2])>> \o Unhexlify(Slice(data, 2))

\* codec.decode(data, "strict") (line 91): text and the number of bytes
\* consumed, or the exception. The hex codec is not a text encoding: it
\* returns bytes and raises binascii.Error, a ValueError that is no
\* UnicodeDecodeError.
CodecDecode(codec, data) ==
    IF codec = AsciiCodec
    THEN IF \A i \in 1..Len(data) : data[i] < 128
         THEN [ok |-> TRUE, text |-> data, consumed |-> Len(data)]
         ELSE Raise("UnicodeDecodeError")
    ELSE IF codec = Utf8Codec
    THEN IF Utf8Strict(data, <<>>).ok
         THEN [ok |-> TRUE, text |-> Utf8Strict(data, <<>>).text, consumed |-> Len(data)]
         ELSE Raise("UnicodeDecodeError")
    ELSE IF codec = Latin1Codec
    THEN [ok |-> TRUE, text |-> data, consumed |-> Len(data)]
    ELSE IF Len(data) % 2 = 0 /\ \A i \in 1..Len(data) : IsHexDigit(data[i])
         THEN [ok |-> TRUE, text |-> Unhexlify(data), consumed |-> Len(data)]
         ELSE Raise("binascii.Error")

\* dict assignment codecs[name] = codec: a new key goes last, a known key
\* keeps its place
DictSet(d, key, value) ==
    IF \E i \in 1..Len(d) : d[i][1] = key
    THEN [i \in 1..Len(d) |-> IF d[i][1] = key THEN <<key, value>> ELSE d[i]]
    ELSE Append(d, <<key, value>>)

\* lines 79-86: the codecs to try
RECURSIVE BuildCodecs(_, _, _)
BuildCodecs(encodings, i, codecs) ==
    IF i > Len(encodings) THEN codecs
    ELSE LET codec == lookup_codec(encodings[i])
         IN  BuildCodecs(encodings, i + 1,
                         IF codec.ok
                         THEN DictSet(codecs, standard_codec_name(codec.name), codec.name)
                         ELSE codecs)

\* lines 89-96: the loop over the codecs
RECURSIVE ApplyCodecs(_, _, _)
ApplyCodecs(data, codecs, i) ==
    IF i > Len(codecs) THEN Raise("ValueError")
    ELSE LET decoded == CodecDecode(codecs[i][2], data)
         IN  IF ~decoded.ok
             THEN IF decoded.error = "UnicodeDecodeError"
                  THEN ApplyCodecs(data, codecs, i + 1)
                  ELSE Raise(decoded.error)
             ELSE IF decoded.consumed = Len(data)
             THEN [ok |-> TRUE, text |-> decoded.text, encoding |-> codecs[i][1]]
             ELSE ApplyCodecs(data, codecs, i + 1)

try_decode(data, encodings) == ApplyCodecs(data, BuildCodecs(encodings, 1, <<>>), 1)

\* lines 124-128: an option is <<encoding, source>>, encoding <<>> for None
\* and <<name>> otherwise
FilterOptions(encoding_options) ==
    SelectSeq(encoding_options, LAMBDA option : option[1] # <<>>)

\* (mutant) a differing encoding is only noted
ReportOption_NoWarning(option, used_encoding) ==
    LET encoding == option[1][1]
        codec == lookup_codec(encoding)
    IN  IF ~codec.ok THEN <<<<"warning", option[2], "unknown">>>>
        ELSE IF standard_codec_name(codec.name) # used_encoding
        THEN <<<<"info", option[2], "differs">>>>
        ELSE IF standard_codec_name(codec.name) # encoding
        THEN <<<<"info", option[2], "not the standard name">>>>
        ELSE <<>>

\* lines 140-164: what is logged about one option
ReportOption(option, used_encoding) ==
    LET encoding == option[1][1]
        codec == lookup_codec(encoding)
    IN  IF ~codec.ok THEN <<<<"warning", option[2], "unknown">>>>
        ELSE IF standard_codec_name(codec.name) # used_encoding
        THEN <<<<"warning", option[2], "differs">>>>
        ELSE IF standard_codec_name(codec.name) # encoding
        THEN <<<<"info", option[2], "not the standard name">>>>
        ELSE <<>>

RECURSIVE ReportOptions(_, _, _)
ReportOptions(options, used_encoding, i) ==
    IF i > Len(options) THEN <<>>
    ELSE ReportOption(options[i], used_encoding)
            \o ReportOptions(options, used_encoding, i + 1)

\* decode_and_report: the text, the encoding and what was logged, or the
\* exception
decode_and_report(data, encoding_options) ==
    LET options == FilterOptions(encoding_options)
        encodings == [i \in 1..Len(options) |-> options[i][1][1]] \o <<<<117, 116, 102, 45, 56>>>>
        decoded == try_decode(data, encodings)
    IN  IF ~decoded.ok THEN [ok |-> FALSE, error |-> decoded.error, log |-> <<>>]
        ELSE [ok |-> TRUE, text |-> decoded.text, encoding |-> decoded.encoding,
              log |-> ReportOptions(options, decoded.encoding, 1)]

\* ---- decode_and_report: inputs
MaxData == 2
MaxHints == 2

\* 'A', the two bytes of U+00E9 in UTF-8, and U+00E9 in Latin-1
DataBytes == {65, 195, 169, 233}

\* None, "us-ascii", "ascii", "utf-8", "UTF-8", "latin-1", "iso-8859-1",
\* "hex" and "nope"
Hints ==
    {<<>>, <<<<117, 115, 45, 97, 115, 99, 105, 105>>>>, <<<<97, 115, 99, 105, 105>>>>, <<<<117, 116, 102, 45, 56>>>>, <<<<85, 84, 70, 45, 56>>>>, <<<<108, 97, 116, 105, 110, 45, 49>>>>,
     <<<<105, 115, 111, 45, 56, 56, 53, 57, 45, 49>>>>, <<<<104, 101, 120>>>>, <<<<110, 111, 112, 101>>>>}

OptionLists ==
    {[i \in 1..Len(hints) |-> <<hints[i], i>>] : hints \in SeqsUpTo(Hints, MaxHints)}

DecodeInit ==
    /\ NoSpider /\ NoParser
    /\ \E data \in SeqsUpTo(DataBytes, MaxData), encoding_options \in OptionLists :
          call = [fn |-> "decode_and_report", data |-> data,
                  encoding_options |-> encoding_options, result |-> <<>>]

DecodeCall ==
    /\ call.fn = "decode_and_report" /\ call.result = <<>>
    /\ call' = [call EXCEPT !.result =
                    <<decode_and_report(call.data, call.encoding_options)>>]
    /\ UNCHANGED <<spider_vars, records_read, parser, parser_pc>>

SpecDecode == DecodeInit /\ [][DecodeCall]_vars

\* the candidates of a call: the encodings of the options that are not
\* None, in order, then "utf-8"
Candidates(encoding_options) ==
    LET options == FilterOptions(encoding_options)
    IN  [i \in 1..Len(options) |-> options[i][1][1]] \o <<<<117, 116, 102, 45, 56>>>>

\* the canonical name of a candidate that Python knows
Canonical(encoding) == standard_codec_name(lookup_codec(encoding).name)

\* candidate i is known and decodes all of the data
DecodesAll(candidates, i, data) ==
    /\ lookup_codec(candidates[i]).ok
    /\ CodecDecode(lookup_codec(candidates[i]).name, data).ok
    /\ CodecDecode(lookup_codec(candidates[i]).name, data).consumed = Len(data)

\* C17: decode_and_report fails only when no candidate decodes all the data,
\* and otherwise returns the text and the canonical name of the first
\* candidate that does.
C17_FirstDecodingCandidate ==
    (call.fn = "decode_and_report" /\ call.result # <<>>) =>
        LET candidates == Candidates(call.encoding_options)
            decoding == {i \in 1..Len(candidates) : DecodesAll(candidates, i, call.data)}
            result == call.result[1]
        IN  IF decoding = {} THEN ~result.ok
            ELSE LET first == CHOOSE i \in decoding : \A j \in decoding : i <= j
                 IN  /\ result.ok
                     /\ result.encoding = Canonical(candidates[first])
                     /\ result.text =
                          CodecDecode(lookup_codec(candidates[first]).name, call.data).text

\* the same for calls whose candidates are all text encodings or unknown
C17_FirstDecodingTextCandidate ==
    (call.fn = "decode_and_report"
        /\ \A i \in 1..Len(Candidates(call.encoding_options)) :
              LET codec == lookup_codec(Candidates(call.encoding_options)[i])
              IN  codec.ok => codec.name # HexCodec) => C17_FirstDecodingCandidate

\* two spellings of one encoding that cannot decode the data came first, and
\* the appended UTF-8 decoded it
C17_DuplicateThenUtf8 ==
    /\ call.fn = "decode_and_report" /\ call.result # <<>>
    /\ Len(call.encoding_options) = 2
    /\ \A i \in 1..2 : call.encoding_options[i][1] # <<>>
    /\ call.encoding_options[1][1] # call.encoding_options[2][1]
    /\ \A i \in 1..2 : lookup_codec(call.encoding_options[i][1][1]).ok
    /\ Canonical(call.encoding_options[1][1][1]) = <<117, 115, 45, 97, 115, 99, 105, 105>>
    /\ Canonical(call.encoding_options[2][1][1]) = <<117, 115, 45, 97, 115, 99, 105, 105>>
    /\ call.result[1].ok /\ call.result[1].encoding = <<117, 116, 102, 45, 56>>
    /\ call.result[1].text = <<233>>


\* the messages logged about the option that came from a source
LoggedAbout(log, source) == SelectSeq(log, LAMBDA message : message[2] = source)

\* C18: when decode_and_report has chosen an encoding, each option that is
\* not None has at most one message: a warning when Python does not know its
\* encoding or its canonical name is not the chosen one, a note when the
\* canonical name is the chosen one and the option spells it otherwise, and
\* nothing when the option is the chosen canonical name. Nothing is logged
\* about None, the messages are in the order of the options, and nothing at
\* all is logged when every option names the chosen encoding.
C18_OneMessagePerHint ==
    (call.fn = "decode_and_report" /\ call.result # <<>> /\ call.result[1].ok) =>
        LET options == call.encoding_options
            used == call.result[1].encoding
            log == call.result[1].log
        IN  /\ \A i \in 1..Len(options) :
                  LET about == LoggedAbout(log, options[i][2])
                      hint == options[i][1]
                  IN  IF hint = <<>> \/ hint = <<used>> THEN about = <<>>
                      ELSE /\ Len(about) = 1
                           /\ about[1][1] =
                                IF ~lookup_codec(hint[1]).ok THEN "warning"
                                ELSE IF Canonical(hint[1]) # used THEN "warning"
                                ELSE "info"
            /\ \A i, j \in 1..Len(log) : i < j => log[i][2] < log[j][2]
            /\ (\A i \in 1..Len(options) : options[i][1] \in {<<>>, <<used>>}) => log = <<>>

\* C18 witness: of two options, the first names the chosen encoding in
\* another spelling and got a note, the second names another encoding and
\* got a warning
C18_Witness ==
    /\ call.fn = "decode_and_report" /\ call.result # <<>> /\ call.result[1].ok
    /\ Len(call.encoding_options) = 2
    /\ Len(call.result[1].log) = 2
    /\ call.result[1].log[1][1] = "info" /\ call.result[1].log[1][2] = 1
    /\ call.result[1].log[2][1] = "warning" /\ call.result[1].log[2][2] = 2
    /\ lookup_codec(call.encoding_options[2][1][1]).ok

\* an option that is the chosen canonical name, after a None, was passed
\* over in silence
C18_SilentWitness ==
    /\ call.fn = "decode_and_report" /\ call.result # <<>> /\ call.result[1].ok
    /\ Len(call.encoding_options) = 2
    /\ call.encoding_options[1][1] = <<>>
    /\ call.encoding_options[2][1] = <<call.result[1].encoding>>
    /\ call.result[1].encoding # Utf8Codec
    /\ call.result[1].log = <<>>


\* ---------------------------------------------------------------------
\* fetch.py: open_page and load_page as functions of what the server does

\* What the server does is a script: the results of the calls of
\* _URL_OPENER.open in order. A result of the script also holds what the
\* callers of open_page read from the response: its URL (the new location
\* of a redirect), the Content-Type and its charset (<<>> for None), the
\* body, and how response.read() ends: "ok", "OSError" (the connection is
\* lost) or "IncompleteRead" (the body is shorter than announced), which is
\* an error of http.client and no OSError.
PageResult(kind, code, retry_after, reason, url, content_type, charset, body, read) ==
    [kind |-> kind, code |-> code, retry_after |-> retry_after, reason |-> reason,
     url |-> url, content_type |-> content_type, charset |-> charset,
     body |-> body, read |-> read]

\* open_page has sent the request and the script has no answer yet
Waiting == [kind |-> "waiting", exception |-> "", code |-> NoCode, failure |-> <<>>]

\* lines 119-151: the loop, from result i of the script
RECURSIVE OpenPageLoop(_, _, _, _, _)
OpenPageLoop(url, ignore_client_error, script, i, slept) ==
    IF i > Len(script) THEN [outcome |-> Waiting, at |-> i, slept |-> slept]
    ELSE IF ~Is503(script[i])
    THEN [outcome |-> OpenOutcome(url, ignore_client_error, script[i]),
          at |-> i, slept |-> slept]
    ELSE IF RetrySeconds(script[i]) < 0
    THEN [outcome |-> RaisedOther("ValueError"), at |-> i, slept |-> slept]
    ELSE OpenPageLoop(url, ignore_client_error, script, i + 1,
                      Append(slept, RetrySeconds(script[i])))

\* open_page(url, ignore_client_error), the server answering with the
\* results of the script from the one at start
open_page(url, ignore_client_error, script, start) ==
    IF HasUrlType(url) THEN OpenPageLoop(url, ignore_client_error, script, start, <<>>)
    ELSE [outcome |-> RaisedOther("ValueError"), at |-> start - 1, slept |-> <<>>]

\* what load_page gives: (report, response, contents), response and content
\* <<>> for None, or the exception that went through it
Loaded(report, response, content, at) ==
    [status |-> "returned", exception |-> "", report |-> report,
     response |-> response, content |-> content, at |-> at]

NotLoaded(status, exception, url, at) ==
    [status |-> status, exception |-> exception, report |-> Report(url),
     response |-> <<>>, content |-> <<>>, at |-> at]

\* lines 183-199: what load_page does with what open_page gave
LoadOpened(url, script, opened) ==
    LET out == opened.outcome
        response == script[opened.at]
        report == IF out.kind = "raised" THEN out.failure[1] ELSE Report(url)
    IN  IF out.kind = "waiting" THEN NotLoaded("waiting", "", url, opened.at)
        ELSE IF out.kind = "raised" /\ out.exception # "FetchFailure"
        THEN NotLoaded("raised", out.exception, url, opened.at)
        ELSE IF out.kind = "raised" /\ out.failure[1].http_error = <<>>
        THEN Loaded(report, <<>>, <<>>, opened.at)
        ELSE IF response.read = "OSError"
        THEN Loaded(ReportLog(report, "error", "Failed to read contents"),
                    <<response>>, <<>>, opened.at)
        ELSE IF response.read # "ok"
        THEN NotLoaded("raised", response.read, url, opened.at)
        ELSE Loaded(report, <<response>>, <<response.body>>, opened.at)

\* load_page (lines 154-201)
load_page(url, ignore_client_error, script, start) ==
    LoadOpened(url, script, open_page(url, ignore_client_error, script, start))

\* ---------------------------------------------------------------------
\* checker.py: PageChecker.check

\* normalize_url (lines 77-85): urlunsplit(urlsplit(url)), which drops an
\* empty query and an empty fragment
normalize_url(url) ==
    LET parts == urlsplit(url)
    IN  parts.scheme \o <<58, 47, 47>> \o parts.host \o parts.path
            \o (IF parts.query = <<>> THEN <<>> ELSE <<63>> \o parts.query)
            \o (IF parts.fragment = <<>> THEN <<>> ELSE <<35>> \o parts.fragment)

\* lines 264-270: the referrer for the new URL, a warning when it cannot
\* be parsed
RedirectParsed(noted, parsed) ==
    IF parsed.ok
    THEN [report |-> noted, referrers |-> <<Redirect(parsed.request)>>]
    ELSE [report |-> ReportLog(noted, "warning", parsed.error), referrers |-> <<>>]

\* lines 255-270: a redirect to the URL content_url
RedirectTo(base, req_url, report, response, content_url) ==
    IF ~(response.code \in 300..399) \/ content_url = req_url
    THEN [report |-> report, referrers |-> <<>>]
    ELSE IF ~StartsWith(content_url, base)
    THEN [report |-> ReportLog(report, "info", "Redirected outside"),
          referrers |-> <<>>]
    ELSE RedirectParsed(IF StartsWith(content_url, <<102, 105, 108, 101, 58>>) THEN report
                        ELSE ReportLog(report, "info", "Redirected to"),
                        from_url(content_url))

\* lines 254-270: a redirect to another URL
CheckRedirect(base, req_url, report, response) ==
    RedirectTo(base, req_url, report, response, normalize_url(response.url))

\* _check_response (lines 285-398), what it tells the report, for a
\* response whose body does not begin with '<?xml' and is no XML document:
\* the status and the Content-Type header are looked at, and an HTML
\* document of ASCII characters decodes and parses with nothing to tell
CheckResponse(report, response) ==
    IF response.code \notin {200, NoCode}
    THEN [ReportLog(report, "info", "Skipping content check because of HTTP status")
            EXCEPT !.checked = "HTTP_STATUS_SKIP"]
    ELSE IF response.content_type = <<>>
    THEN ReportLog(report, "error", "Missing Content-Type header")
    ELSE report

\* the HTML document of the model, <a href=y>, a link to the page 'y' of the
\* directory of the document
HtmlDocument == <<60, 97, 32, 104, 114, 101, 102, 61, 121, 62>>

\* parse_document (lines 87-135) and find_referrers_in_xml (lines 444-465)
\* for the documents of the model: the link of HtmlDocument, resolved
\* against the URL of the request, when it lies in scope
LinksIn(base, req_url, body) ==
    LET from == urlsplit(req_url)
        url == from.scheme \o <<58, 47, 47>> \o from.host
                 \o SubSeq(from.path, 1, RIndex(from.path, 47) + 1) \o <<121>>
    IN  IF body = HtmlDocument /\ StartsWith(url, base)
        THEN <<LinkSet(from_url(url).request.page_url, <<<<>>>>)>>
        ELSE <<>>

\* (mutant) the content is checked whatever the status is
ResponseReferrers_AnyStatus(base, req_url, response) ==
    IF response.content_type = <<"text/html">>
    THEN LinksIn(base, req_url, response.body)
    ELSE <<>>

\* _check_response (lines 285-398): the referrers it yields, which are
\* those of an HTML document that was answered with status 200
ResponseReferrers(base, req_url, response) ==
    IF response.code \notin {200, NoCode} THEN <<>>
    ELSE IF response.content_type = <<"text/html">>
    THEN LinksIn(base, req_url, response.body)
    ELSE <<>>

\* _check_response: whether it hands the content to the plugins (line
\* 398), which the returns of lines 304 and 312 prevent
ResourceLoaded(response) ==
    response.code \in {200, NoCode} /\ response.content_type # <<>>

\* (mutant) every request is a speculative one
CheckLoad_AlwaysIgnores(req, script) == load_page(RequestStr(req), TRUE, script, 1)

\* lines 249-251: load_page(req_url, req.maybe_bad, accept_header)
CheckLoad(req, script) == load_page(RequestStr(req), req.maybe_bad, script, 1)

\* lines 272-283: the content is checked, if there is any, and the report
\* goes to the scribe
CheckRedirected(base, req_url, loaded, redirected) ==
    [status |-> "returned", exception |-> "",
     referrers |-> IF loaded.content = <<>> THEN redirected.referrers
                   ELSE redirected.referrers
                            \o ResponseReferrers(base, req_url, loaded.response[1]),
     resource_loaded |-> loaded.content # <<>> /\ ResourceLoaded(loaded.response[1]),
     content |-> loaded.content,
     reports |-> <<IF loaded.content = <<>>
                   THEN [ReportLog(redirected.report, "info",
                                   "Could not get any content to check")
                           EXCEPT !.checked = "NO_CONTENT"]
                   ELSE CheckResponse(redirected.report, loaded.response[1])>>,
     answer |-> loaded.response]

\* lines 252-283: what check does with what load_page gave
CheckLoaded(base, req_url, loaded) ==
    IF loaded.status # "returned"
    THEN [status |-> loaded.status, exception |-> loaded.exception,
          referrers |-> <<>>, resource_loaded |-> FALSE, content |-> <<>>,
          reports |-> <<>>, answer |-> <<>>]
    ELSE CheckRedirected(base, req_url, loaded,
                         IF loaded.response = <<>>
                         THEN [report |-> loaded.report, referrers |-> <<>>]
                         ELSE CheckRedirect(base, req_url, loaded.report,
                                            loaded.response[1]))

\* PageChecker.check (lines 237-283): the referrers it returns and the
\* reports of the scribe, or the exception
check(base, req, script) == CheckLoaded(base, RequestStr(req), CheckLoad(req, script))

\* ---- PageChecker.check: inputs
MaxScript == 2

\* the site http://h/
CheckBase == <<104, 116, 116, 112, 58, 47, 47, 104, 47>>

\* http://h/x and http://h/x?q=1, speculative or not
CheckRequests ==
    {Request(PageUrl(Http, <<47, 120>>), query, maybe_bad) :
        query \in {<<>>, Q(1)}, maybe_bad \in BOOLEAN}

\* the new locations: the page itself, the same with an empty query,
\* another page of the site, a page whose query cannot be parsed, and a page
\* of another site
Locations == {<<104, 116, 116, 112, 58, 47, 47, 104, 47, 120>>, <<104, 116, 116, 112, 58, 47, 47, 104, 47, 120, 63>>, <<104, 116, 116, 112, 58, 47, 47, 104, 47, 121>>, <<104, 116, 116, 112, 58, 47, 47, 104, 47, 121, 63, 122>>, <<104, 116, 116, 112, 58, 47, 47, 103, 47>>}

\* the answers: a status with a body that can or cannot be read (200 with
\* and without Content-Type, redirects, client and server errors, 503 with
\* Retry-After absent or -1), and the errors without a response
CheckResults ==
    {PageResult("response", c, <<>>, <<"reason">>, <<104, 116, 116, 112, 58, 47, 47, 104, 47, 120>>, <<>>, <<>>, <<65>>, read) :
        c \in {400, 404, 500, 503}, read \in {"ok", "OSError", "IncompleteRead"}}
    \cup {PageResult("response", 200, <<>>, <<"reason">>, <<104, 116, 116, 112, 58, 47, 47, 104, 47, 120>>, t, <<>>, <<65>>, "ok") :
        t \in {<<>>, <<"application/octet-stream">>}}
    \cup {PageResult("response", c, <<>>, <<"reason">>, <<104, 116, 116, 112, 58, 47, 47, 104, 47, 120>>, <<"text/html">>, <<>>, HtmlDocument, "ok") :
        c \in {200, 404}}
    \cup {PageResult("response", 301, <<>>, <<"reason">>, <<104, 116, 116, 112, 58, 47, 47, 104, 47, 122>>, <<"text/html">>, <<>>, HtmlDocument, "ok")}
    \cup {PageResult("response", 301, <<>>, <<"reason">>, l, <<>>, <<>>, <<65>>, "ok") :
        l \in Locations}
    \cup {PageResult("response", 503, <<<<45, 49>>>>, <<"reason">>, <<104, 116, 116, 112, 58, 47, 47, 104, 47, 120>>, <<>>, <<>>, <<65>>, "ok"),
          PageResult("URLError", NoCode, <<>>, <<"refused">>, <<>>, <<>>, <<>>, <<>>, "ok"),
          PageResult("HTTPException", NoCode, <<>>, <<"bad status line">>, <<>>, <<>>, <<>>, <<>>, "ok")}

CheckInit ==
    /\ NoSpider /\ NoParser
    /\ \E req \in CheckRequests, script \in SeqsUpTo(CheckResults, MaxScript) :
          call = [fn |-> "check", base_url |-> CheckBase, req |-> req,
                  script |-> script, result |-> <<>>]

CheckCall ==
    /\ call.fn = "check" /\ call.result = <<>>
    /\ call' = [call EXCEPT !.result = <<check(call.base_url, call.req, call.script)>>]
    /\ UNCHANGED <<spider_vars, records_read, parser, parser_pc>>

SpecCheck == CheckInit /\ [][CheckCall]_vars

\* the call returned after the server answered with the status code
AnsweredWith(code) ==
    /\ call.fn = "check" /\ call.result # <<>>
    /\ call.result[1].status = "returned"
    /\ call.result[1].answer # <<>> /\ call.result[1].answer[1].code = code

\* the messages of a report above the level INFO
Defects(report) ==
    SelectSeq(report.log, LAMBDA message : message[1] \in {"warning", "error"})

C19_FailureWitness ==
    /\ AnsweredWith(400)
    /\ ~call.req.maybe_bad /\ call.req.query # <<>>
    /\ Len(call.script) = 2 /\ call.script[1].code = 503
    /\ call.result[1].answer[1].read = "ok"
    /\ call.result[1].reports[1].class = "FetchFailure"


\* ---------------------------------------------------------------------
\* decode.py: encoding_from_bom; fetch.py: load_text

\* encoding_from_bom (lines 25-37): <<>> for None
encoding_from_bom(data) ==
    IF StartsWith(data, <<239, 187, 191>>) THEN <<<<117, 116, 102, 45, 56>>>>
    ELSE IF StartsWith(data, <<255, 254>>) \/ StartsWith(data, <<254, 255>>)
    THEN <<<<117, 116, 102, 45, 49, 54>>>>
    ELSE IF StartsWith(data, <<255, 254, 0, 0>>) \/ StartsWith(data, <<0, 0, 254, 255>>)
    THEN <<<<117, 116, 102, 45, 51, 50>>>>
    ELSE <<>>

\* _RE_EOLN.split(content) (lines 204, 258): split at \r\n, \r and \n
RECURSIVE SplitLines(_)
SplitLines(content) ==
    LET at == FirstOf(content, {10, 13}, 1)
        width == IF at < Len(content) /\ content[at] = 13 /\ content[at + 1] = 10
                 THEN 2 ELSE 1
    IN  IF at > Len(content) THEN <<content>>
        ELSE <<SubSeq(content, 1, at - 1)>> \o SplitLines(Slice(content, at + width - 1))

\* the messages that a function logged, logged on a report
RECURSIVE ReportAll(_, _, _)
ReportAll(report, log, i) ==
    IF i > Len(log) THEN report
    ELSE ReportAll(ReportLog(report, log[i][1], log[i][2]), log, i + 1)

\* what load_text gives: (report, response, contents), contents <<>> for
\* None and <<lines>> otherwise, or the exception that went through it
Text(report, response, lines, at) ==
    [status |-> "returned", exception |-> "", report |-> report,
     response |-> response, lines |-> lines, at |-> at]

NoText(status, exception, url, at) ==
    [status |-> status, exception |-> exception, report |-> Report(url),
     response |-> <<>>, lines |-> <<>>, at |-> at]

\* the redirects that load_text follows
MaxRedirects == 10

\* lines 251-258: a ValueError of decode_and_report is caught; the text is
\* split into lines, and the bytes that the hex codec returns as text make
\* _RE_EOLN.split raise TypeError
LoadTextDecoded(url, loaded, decoded) ==
    IF ~decoded.ok
    THEN Text(ReportLog(loaded.report, "error", "Failed to decode text document"),
              loaded.response, <<>>, loaded.at)
    ELSE IF decoded.encoding = HexCodec
    THEN NoText("raised", "TypeError", url, loaded.at)
    ELSE Text(ReportAll(loaded.report,
                        [i \in 1..Len(decoded.log) |->
                            <<decoded.log[i][1], <<decoded.log[i][2], decoded.log[i][3]>> >>],
                        1),
              loaded.response, <<SplitLines(decoded.text)>>, loaded.at)

\* lines 245-258: the document is decoded with the hints of the byte-order
\* mark and of the Content-Type header
LoadTextDecode(url, loaded) ==
    IF loaded.content = <<>> THEN NoText("raised", "AssertionError", url, loaded.at)
    ELSE LoadTextDecoded(url, loaded,
             decode_and_report(loaded.content[1],
                 << <<encoding_from_bom(loaded.content[1]), "Byte Order Mark">>,
                    <<loaded.response[1].charset, "HTTP header">> >>))

\* lines 228-243: the loop of load_text
RECURSIVE LoadTextLoop(_, _, _, _)

\* lines 231-243: what the loop does with what load_page gave
LoadTextLoaded(url, script, redirect_count, loaded) ==
    IF loaded.status # "returned"
    THEN NoText(loaded.status, loaded.exception, url, loaded.at)
    ELSE IF loaded.response = <<>>
    THEN Text(loaded.report, <<>>, <<>>, loaded.at)
    ELSE IF loaded.response[1].code \in {200, NoCode}
    THEN LoadTextDecode(url, loaded)
    ELSE IF loaded.response[1].code \in {301, 302, 303, 307}
    THEN IF redirect_count + 1 <= MaxRedirects
         THEN LoadTextLoop(loaded.response[1].url, script, loaded.at + 1,
                           redirect_count + 1)
         ELSE Text(ReportLog(loaded.report, "warning", "Redirect limit exceeded"),
                   loaded.response, <<>>, loaded.at)
    ELSE Text(loaded.report, loaded.response, <<>>, loaded.at)

LoadTextLoop(url, script, start, redirect_count) ==
    LoadTextLoaded(url, script, redirect_count, load_page(url, FALSE, script, start))

load_text(url, script) == LoadTextLoop(url, script, 1, 0)

\* ---------------------------------------------------------------------
\* spider.py: spider_req

USER_AGENT_PREFIX == <<65, 80, 69, 45, 84, 101, 115, 116>>

\* urljoin(base_url, 'robots.txt') for a local directory and
\* urljoin(base_url, '/robots.txt') otherwise (lines 145-149)
RobotsUrl(page_url) ==
    IF page_url.scheme = File
    THEN File \o <<58, 47, 47>> \o SubSeq(page_url.path, 1, RIndex(page_url.path, 47) + 1)
              \o <<114, 111, 98, 111, 116, 115, 46, 116, 120, 116>>
    ELSE urlunsplit(PageUrl(page_url.scheme, <<47, 114, 111, 98, 111, 116, 115, 46, 116, 120, 116>>))

\* a token of scan_robots_txt as parse_robots_txt reads it: the fields are
\* names there, and the files of the model hold no other field than these
TokenOf(tok) ==
    [lineno |-> tok.lineno, value |-> tok.value,
     field |-> IF tok.field = <<117, 115, 101, 114, 45, 97, 103, 101, 110, 116>> THEN "user-agent"
               ELSE IF tok.field = <<97, 108, 108, 111, 119>> THEN "allow"
               ELSE IF tok.field = <<100, 105, 115, 97, 108, 108, 111, 119>> THEN "disallow"
               ELSE "unknown"]

\* lines 161-164: the rules for APE in the lines of robots.txt, and the
\* report with what the scanner and the parser logged on it (the files of
\* the model are one record, which the scanner yields at the end of the
\* file: its messages come first)
RulesParsed(report, scanned, parsed) ==
    [rules |-> lookup_robots_rules(RulesMapOf(parsed), USER_AGENT_PREFIX),
     report |-> [ReportAll(report,
                           [i \in 1..Len(scanned.log) |->
                               <<scanned.log[i].level,
                                 <<scanned.log[i].lineno, scanned.log[i].what>> >>]
                           \o [i \in 1..Len(parsed.log) |->
                               <<parsed.log[i].level,
                                 <<parsed.log[i].lineno, parsed.log[i].what>> >>],
                           1)
                   EXCEPT !.checked = "CHECKED"]]

\* line 162: parse_robots_txt(scan_robots_txt(robots_lines, report), report)
RulesScanned(report, scanned) ==
    RulesParsed(report, scanned,
                parse_robots_txt([r \in 1..Len(scanned.yielded) |->
                                     [i \in 1..Len(scanned.yielded[r]) |->
                                         TokenOf(scanned.yielded[r][i])]]))

RobotsRules(report, lines) == RulesScanned(report, ScanFrom(ScanStart(lines)))

\* lines 165-167: the rules and the report that robots.txt gave
SpiderReqRobots(text, robots) ==
    [status |-> "returned", exception |-> "", rules |-> robots.rules,
     report |-> <<robots.report>>, response |-> text.response, lines |-> text.lines]

\* lines 151-167: what spider_req does with what load_text gave
SpiderReqText(text) ==
    IF text.status # "returned"
    THEN [status |-> text.status, exception |-> text.exception, rules |-> <<>>,
          report |-> <<>>, response |-> <<>>, lines |-> <<>>]
    ELSE IF text.lines = <<>>
    THEN [status |-> "returned", exception |-> "", rules |-> <<>>,
          report |-> IF text.response # <<>> /\ text.response[1].code = 404
                     THEN <<>> ELSE <<text.report>>,
          response |-> text.response, lines |-> <<>>]
    ELSE SpiderReqRobots(text, RobotsRules(text.report, text.lines[1]))

\* spider_req (lines 138-167): the rules of the Spider and the report
\* (<<>> for None), or the exception
spider_req(first_req, script) ==
    SpiderReqText(load_text(RobotsUrl(first_req.page_url), script))

\* ---- spider_req: inputs

\* the seeds http://h/d/p and file:///d/p
SpiderReqSeeds ==
    {Request(PageUrl(Http, <<47, 100, 47, 112>>), <<>>, FALSE), Request(PageUrl(File, <<47, 100, 47, 112>>), <<>>, FALSE)}

\* robots.txt: rules for every robot; rules for APE after a line without
\* ':'; a byte that is not UTF-8; a UTF-8 byte-order mark; hex digits
RobotsBodies ==
    {<<117, 115, 101, 114, 45, 97, 103, 101, 110, 116, 58, 42, 10, 100, 105, 115, 97, 108, 108, 111, 119, 58, 47, 112>>, <<85, 115, 101, 114, 45, 65, 103, 101, 110, 116, 58, 97, 112, 101, 45, 116, 101, 115, 116, 13, 10, 100, 105, 115, 97, 108, 108, 111, 119, 58, 47, 113, 13, 120>>,
     <<255>>, <<239, 187, 191>>, <<52, 49>>}

\* the redirect that load_text follows
RedirectResult ==
    PageResult("response", 301, <<>>, <<"reason">>, <<104, 116, 116, 112, 58, 47, 47, 104, 47, 114>>, <<>>, <<>>, <<>>, "ok")

\* the answers to the request for robots.txt
TextResults ==
    {PageResult("response", 200, <<>>, <<"reason">>, <<104, 116, 116, 112, 58, 47, 47, 104, 47, 114, 111, 98, 111, 116, 115, 46, 116, 120, 116>>, <<"text/plain">>,
                <<>>, b, "ok") : b \in RobotsBodies}
    \cup {PageResult("response", 200, <<>>, <<"reason">>, <<104, 116, 116, 112, 58, 47, 47, 104, 47, 114, 111, 98, 111, 116, 115, 46, 116, 120, 116>>,
                     <<"text/plain">>, <<c>>, <<52, 49>>, "ok") : c \in {<<104, 101, 120>>, <<97, 115, 99, 105, 105>>, <<110, 111, 112, 101>>}}
    \cup {PageResult("response", c, <<>>, <<"reason">>, <<104, 116, 116, 112, 58, 47, 47, 104, 47, 114, 111, 98, 111, 116, 115, 46, 116, 120, 116>>, <<>>, <<>>,
                     <<65>>, read) : c \in {200, 404}, read \in {"OSError", "IncompleteRead"}}
    \cup {PageResult("response", c, <<>>, <<"reason">>, <<104, 116, 116, 112, 58, 47, 47, 104, 47, 114, 111, 98, 111, 116, 115, 46, 116, 120, 116>>, <<>>, <<>>,
                     <<65>>, "ok") : c \in {NoCode, 204, 300, 400, 404, 500, 503}}
    \cup {RedirectResult,
          PageResult("response", 503, <<<<45, 49>>>>, <<"reason">>, <<104, 116, 116, 112, 58, 47, 47, 104, 47, 114, 111, 98, 111, 116, 115, 46, 116, 120, 116>>, <<>>, <<>>, <<>>, "ok"),
          PageResult("URLError", NoCode, <<>>, <<"refused">>, <<>>, <<>>, <<>>, <<>>, "ok"),
          PageResult("HTTPException", NoCode, <<>>, <<"bad status line">>, <<>>, <<>>, <<>>, <<>>, "ok")}

\* the scripts: no redirect, or as many as load_text follows, or one more,
\* and then up to MaxScript answers
TextScripts ==
    {[i \in 1..n |-> RedirectResult] \o tail :
        n \in {0, MaxRedirects, MaxRedirects + 1}, tail \in SeqsUpTo(TextResults, MaxScript)}

SpiderReqInit ==
    /\ NoSpider /\ NoParser
    /\ \E first_req \in SpiderReqSeeds, script \in TextScripts :
          call = [fn |-> "spider_req", first_req |-> first_req, script |-> script,
                  result |-> <<>>]

\* spider_req; Spider(first_req, rules) is Spider.__init__
SpiderReqCall ==
    /\ call.fn = "spider_req" /\ call.result = <<>>
    /\ LET result == spider_req(call.first_req, call.script)
       IN  /\ call' = [call EXCEPT !.result = <<result>>]
           /\ IF result.status = "returned"
              THEN /\ base_url' = call.first_req.page_url
                   /\ rules' = result.rules
                   /\ requests_to_check' = {call.first_req}
                   /\ requests_checked' = {}
                   /\ queries_per_page' = <<>>
                   /\ site_graph' = <<>>
                   /\ page_referred_from' = <<>>
                   /\ yielded' = <<>>
                   /\ enqueued' = <<>>
                   /\ last_call' = [op |-> "init", request |-> call.first_req,
                                    referrers |-> <<>>, result |-> "ok"]
              ELSE UNCHANGED spider_vars
    /\ UNCHANGED <<records_read, parser, parser_pc>>

SpecSpiderReq == SpiderReqInit /\ [][SpiderReqCall]_vars

\* spider_req has ended: it returned or raised, the server having answered
SpiderReqEnded ==
    call.fn = "spider_req" /\ call.result # <<>> /\ call.result[1].status # "waiting"

\* the last answer of the server was the status 404
Answered404 ==
    /\ call.result[1].response # <<>>
    /\ call.result[1].response[1].code = 404

\* C20: spider_req returns a Spider for the seed whatever the server does.
\* When robots.txt could not be loaded the rules are empty; the report is
\* None exactly when the last answer was 404, and after any other failure
\* to load it there is a report that holds a warning or an error.
C20_AlwaysASpider ==
    SpiderReqEnded =>
        LET result == call.result[1]
        IN  /\ result.status = "returned"
            /\ base_url = call.first_req.page_url
            /\ requests_to_check = {call.first_req}
            /\ rules = result.rules
            /\ result.lines = <<>> => rules = <<>>
            /\ result.report = <<>> <=> (result.lines = <<>> /\ Answered404)
            /\ (result.lines = <<>> /\ ~Answered404) =>
                  /\ result.report # <<>>
                  /\ ~result.report[1].ok
                  /\ Defects(result.report[1]) # <<>>

\* the same for the calls that return, a report without a message being
\* what follows a status that is neither 200, a followed redirect nor an
\* error
C20_SpiderWhenReturned ==
    (SpiderReqEnded /\ call.result[1].status = "returned") =>
        LET result == call.result[1]
        IN  /\ base_url = call.first_req.page_url
            /\ requests_to_check = {call.first_req}
            /\ rules = result.rules
            /\ result.lines = <<>> => rules = <<>>
            /\ result.report = <<>> <=> (result.lines = <<>> /\ Answered404)
            /\ (result.lines = <<>> /\ ~Answered404) =>
                  /\ result.report # <<>>
                  /\ \/ ~result.report[1].ok /\ Defects(result.report[1]) # <<>>
                     \/ /\ result.response # <<>>
                        /\ result.response[1].code \in (200..399) \ {200, 301, 302, 303, 307}
                        /\ result.report[1].log = <<>>

\* after as many redirects as load_text follows, robots.txt was read and
\* gave the spider a rule
C20_RulesAfterRedirects ==
    /\ SpiderReqEnded /\ call.result[1].status = "returned"
    /\ Len(call.script) = MaxRedirects + 1
    /\ rules # <<>>
    /\ call.result[1].report # <<>> /\ call.result[1].report[1].checked = "CHECKED"

\* one redirect more, and the report holds the warning
C20_RedirectLimit ==
    /\ SpiderReqEnded /\ call.result[1].status = "returned"
    /\ call.result[1].report # <<>>
    /\ Len(call.result[1].report[1].log) = 1
    /\ call.result[1].report[1].log[1] = <<"warning", "Redirect limit exceeded">>


\* ---------------------------------------------------------------------
\* control.py: RadioButtonGroup and SubmitButtons

\* SingleValueControl.__init__ (lines 71-76) of the class cls
SingleValueControl(cls, name, value) == [class |-> cls, name |-> name, value |-> value]

\* the loop of RadioButtonGroup.__init__ (lines 189-197) from button i on
RECURSIVE RadioButtonLoop(_, _, _, _)
RadioButtonLoop(buttons, name, values, i) ==
    IF i > Len(buttons)
    THEN [ok |-> TRUE, error |-> "",
          control |-> [class |-> "RadioButtonGroup", name |-> name, values |-> values]]
    ELSE IF buttons[i].class # "RadioButton"
    THEN [ok |-> FALSE, error |-> "TypeError", control |-> <<>>]
    ELSE IF buttons[i].name # name
    THEN [ok |-> FALSE, error |-> "ValueError", control |-> <<>>]
    ELSE RadioButtonLoop(buttons, name, Append(values, buttons[i].value), i + 1)

\* RadioButtonGroup.__init__ (lines 180-202); buttons[0] of an empty
\* sequence raises IndexError
RadioButtonGroup(buttons) ==
    IF buttons = <<>> THEN [ok |-> FALSE, error |-> "IndexError", control |-> <<>>]
    ELSE RadioButtonLoop(buttons, buttons[1].name, <<>>, 1)

\* SubmitButtons.__init__ (lines 229-235)
SubmitButtons(buttons) ==
    [ok |-> TRUE, error |-> "",
     control |-> [class |-> "SubmitButtons",
                  buttons |-> [i \in 1..Len(buttons) |->
                                  <<buttons[i].name, buttons[i].value>>]]]

\* RadioButtonGroup.alternatives (lines 207-209) and
\* SubmitButtons.alternatives (lines 240-241)
GroupAlternatives(control) ==
    IF control.class = "RadioButtonGroup"
    THEN [i \in 1..Len(control.values) |-> <<control.name, control.values[i]>>]
    ELSE control.buttons

\* ---- controls: inputs
MaxButtons == 3

\* radio buttons, submit buttons and checkboxes named 'a' or 'b' with the
\* value '1' or '2'
Buttons ==
    {SingleValueControl(cls, name, value) :
        cls \in {"RadioButton", "SubmitButton", "Checkbox"},
        name \in {<<97>>, <<98>>}, value \in {<<49>>, <<50>>}}

ControlInit ==
    /\ NoSpider /\ NoParser
    /\ \E fn \in {"RadioButtonGroup", "SubmitButtons"},
          buttons \in SeqsUpTo(Buttons, MaxButtons) :
          call = [fn |-> fn, buttons |-> buttons, result |-> <<>>]

RadioButtonGroupCall ==
    /\ call.fn = "RadioButtonGroup" /\ call.result = <<>>
    /\ call' = [call EXCEPT !.result = <<RadioButtonGroup(call.buttons)>>]
    /\ UNCHANGED <<spider_vars, records_read, parser, parser_pc>>

SubmitButtonsCall ==
    /\ call.fn = "SubmitButtons" /\ call.result = <<>>
    /\ call' = [call EXCEPT !.result = <<SubmitButtons(call.buttons)>>]
    /\ UNCHANGED <<spider_vars, records_read, parser, parser_pc>>

ControlNext == RadioButtonGroupCall \/ SubmitButtonsCall

SpecControl == ControlInit /\ [][ControlNext]_vars

\* the buttons of the call are no radio buttons of one name
Mismatched(buttons) ==
    \E i \in 1..Len(buttons) :
        buttons[i].class # "RadioButton" \/ buttons[i].name # buttons[1].name

\* C21: a RadioButtonGroup of buttons that do not share one name or are
\* not all radio buttons is not constructed, no RadioButtonGroup and no
\* SubmitButtons is constructed from no buttons, and a constructed group
\* has at least one alternative.
C21_NoEmptyGroup ==
    (call.fn \in {"RadioButtonGroup", "SubmitButtons"} /\ call.result # <<>>) =>
        /\ (call.fn = "RadioButtonGroup" /\ Mismatched(call.buttons)) => ~call.result[1].ok
        /\ call.buttons = <<>> => ~call.result[1].ok
        /\ call.result[1].ok => GroupAlternatives(call.result[1].control) # <<>>

\* the same for RadioButtonGroup alone, with the exception that each case
\* raises, and the alternatives of the group that is constructed
C21_RadioButtonGroupChecked ==
    (call.fn = "RadioButtonGroup" /\ call.result # <<>>) =>
        /\ call.buttons = <<>> => call.result[1].error = "IndexError"
        /\ Mismatched(call.buttons) =>
              /\ ~call.result[1].ok
              /\ call.result[1].error \in {"TypeError", "ValueError"}
        /\ (call.buttons # <<>> /\ ~Mismatched(call.buttons)) =>
              /\ call.result[1].ok
              /\ GroupAlternatives(call.result[1].control)
                    = [i \in 1..Len(call.buttons) |->
                          <<call.buttons[1].name, call.buttons[i].value>>]

\* radio buttons of two names were given, the second name last
C21_NamesDiffer ==
    /\ call.fn = "RadioButtonGroup" /\ call.result # <<>>
    /\ Len(call.buttons) = MaxButtons
    /\ \A i \in 1..Len(call.buttons) : call.buttons[i].class = "RadioButton"
    /\ call.buttons[Len(call.buttons)].name # call.buttons[1].name
    /\ call.result[1].error = "ValueError"

\* SubmitButtons was constructed from no buttons
C21_EmptySubmitButtons ==
    /\ call.fn = "SubmitButtons" /\ call.result # <<>>
    /\ call.buttons = <<>>
    /\ call.result[1].ok
    /\ GroupAlternatives(call.result[1].control) = <<>>


\* ---------------------------------------------------------------------
\* plugin/__init__.py: create_plugins; cmdline.py: main

\* A plugin module is [has_create, yields, ending]: whether it defines
\* plugin_create, the objects that plugin_create yields ("Plugin" for an
\* instance of Plugin, "object" for any other object) and how it ends then:
\* "return", "PluginError" or "Exception" (any other exception).
PluginModule(has_create, yields, ending) ==
    [has_create |-> has_create, yields |-> yields, ending |-> ending]

\* what create_plugins gave when it was consumed: the plugins, or the
\* exception that it raised, and what it logged
Created(plugins, log) ==
    [ok |-> TRUE, exception |-> "", plugins |-> plugins, log |-> log]

NotCreated(exception, log) ==
    [ok |-> FALSE, exception |-> exception, plugins |-> <<>>, log |-> log]

\* _log_yield (lines 218-226) at its end: PluginError and any other
\* exception of plugin_create are logged, and the generator ends
LogYieldEnd(module) ==
    IF module.ending = "PluginError" THEN <<"error: Could not instantiate plugin">>
    ELSE IF module.ending = "Exception" THEN <<"exception: Error instantiating plugin module">>
    ELSE <<>>

\* lines 228-238: the loop over what _log_yield yields
RECURSIVE CreateLoop(_, _, _)
CreateLoop(module, plugins, i) ==
    IF i > Len(module.yields) THEN Created(plugins, LogYieldEnd(module))
    ELSE IF module.yields[i] = "Plugin"
    THEN CreateLoop(module, Append(plugins, module.yields[i]), i + 1)
    ELSE NotCreated("TypeError", <<"error: created a plugin which does not inherit from Plugin">>)

\* create_plugins (lines 195-238), consumed to its end
create_plugins(module) ==
    IF ~module.has_create
    THEN NotCreated("AttributeError", <<"error: does not implement plugin_create()">>)
    ELSE CreateLoop(module, <<>>, 1)

\* detect_url (lines 26-43) for an argument with the scheme http or
\* https and for an absolute path, which the arguments of the model are
detect_url(arg) ==
    IF StartsWith(arg, <<104, 116, 116, 112, 58>>) \/ StartsWith(arg, <<104, 116, 116, 112, 115, 58>>) THEN arg
    ELSE <<102, 105, 108, 101, 58, 47, 47>> \o arg

\* ---- main: inputs
MaxModules == 2
MaxYields == 2

PluginModules ==
    {PluginModule(FALSE, <<>>, "return")}
    \cup {PluginModule(TRUE, yields, ending) :
            yields \in SeqsUpTo({"Plugin", "object"}, MaxYields),
            ending \in {"return", "PluginError", "Exception"}}

\* a site, a page with a query that cannot be parsed, and a directory
UrlArguments == {<<104, 116, 116, 112, 58, 47, 47, 104, 47, 100, 47, 112>>, <<104, 116, 116, 112, 58, 47, 47, 104, 47, 100, 47, 112, 63, 120>>, <<47, 100, 47, 112>>}

\* main before line 145: the plugin modules are loaded and the arguments
\* are parsed
MainInit ==
    /\ NoSpider /\ NoParser
    /\ \E modules \in SeqsUpTo(PluginModules, MaxModules), url \in UrlArguments :
          call = [fn |-> "main", modules |-> modules, url |-> url, pc |-> "plugins",
                  module |-> 1, plugin_list |-> <<>>, log |-> <<>>,
                  crawl_started |-> FALSE, exit_code |-> <<>>]

\* lines 147-151: the plugins of the next module
MainCreatePlugins ==
    /\ call.fn = "main" /\ call.pc = "plugins" /\ call.module <= Len(call.modules)
    /\ LET created == create_plugins(call.modules[call.module])
       IN  call' = IF created.ok
                   THEN [call EXCEPT !.plugin_list = @ \o created.plugins,
                                     !.log = @ \o created.log,
                                     !.module = @ + 1]
                   ELSE [call EXCEPT !.log = @ \o created.log,
                                     !.pc = "done", !.exit_code = <<1>>]
    /\ UNCHANGED <<spider_vars, records_read, parser, parser_pc>>

\* lines 153-155 and run (lines 64-94) as far as main sees it: 1 for a bad
\* URL, else the crawl starts, and 0 when the run completes
MainRun ==
    /\ call.fn = "main" /\ call.pc = "plugins" /\ call.module > Len(call.modules)
    /\ call' = IF from_url(detect_url(call.url)).ok
               THEN [call EXCEPT !.pc = "done", !.crawl_started = TRUE, !.exit_code = <<0>>]
               ELSE [call EXCEPT !.pc = "done", !.exit_code = <<1>>]
    /\ UNCHANGED <<spider_vars, records_read, parser, parser_pc>>

MainNext == MainCreatePlugins \/ MainRun

SpecMain == MainInit /\ [][MainNext]_vars

\* the construction of the plugins of the module fails as the claim lists
ConstructionFails(module) ==
    \/ ~module.has_create
    \/ module.ending \in {"PluginError", "Exception"}
    \/ "object" \in Range(module.yields)

C22_RaisedFailureEndsMain ==
    (call.fn = "main" /\ call.pc = "done"
        /\ \E i \in 1..Len(call.modules) :
              ~call.modules[i].has_create \/ "object" \in Range(call.modules[i].yields)) =>
        /\ call.exit_code = <<1>>
        /\ ~call.crawl_started

\* the second module yielded an object that is no Plugin after the first
\* module had created its plugins
C22_SecondModuleFails ==
    /\ call.fn = "main" /\ call.pc = "done"
    /\ Len(call.modules) = 2
    /\ ~ConstructionFails(call.modules[1]) /\ call.modules[1].yields # <<>>
    /\ call.modules[2].has_create /\ call.modules[2].yields = <<"Plugin", "object">>
    /\ from_url(detect_url(call.url)).ok
    /\ call.exit_code = <<1>>

\* plugin_create raised PluginError and the crawl was started
C22_CrawlAfterPluginError ==
    /\ call.fn = "main" /\ call.pc = "done"
    /\ \E i \in 1..Len(call.modules) : call.modules[i].ending = "PluginError"
    /\ call.crawl_started /\ call.exit_code = <<0>>


\* ---------------------------------------------------------------------
\* cmdline.py: run, with the Scribe of report.py as far as run drives it

\* Scribe.__init__ (report.py lines 333-344): the directory of the base
\* URL and no pages. pages maps the name of a page to the queries of its
\* reports (the keys of Page.query_to_report); added holds the URLs of the
\* reports that add_report was called with, in order.
Scribe(base) ==
    LET path == urlsplit(base).path
        base_path == IF path = <<>> THEN <<47>> ELSE path
    IN  [base_path |-> SubSeq(base_path, 1, RIndex(base_path, 47) + 1),
         pages |-> <<>>, added |-> <<>>]

\* Scribe.add_report (lines 364-377) with __url_to_name (lines 359-362) and
\* Page.add_report (lines 264-276), for the report of the given URL: the
\* assertion of line 361 fails for a path outside the base directory, the
\* assertion of line 273 for a query that the page has a report for
ScribeAddReport(scribe, url) ==
    LET parts == urlsplit(url)
        path == IF parts.path = <<>> THEN <<47>> ELSE parts.path
        name == Slice(path, Len(scribe.base_path))
        notified == [scribe EXCEPT !.added = Append(@, url)]
    IN  IF ~StartsWith(path, scribe.base_path)
        THEN [ok |-> FALSE, failed |-> "path.startswith(self._base_path)", scribe |-> notified]
        ELSE IF name \in DOMAIN scribe.pages /\ parts.query \in scribe.pages[name]
        THEN [ok |-> FALSE, failed |-> "query not in self.query_to_report", scribe |-> notified]
        ELSE [ok |-> TRUE, failed |-> "",
              scribe |-> [notified EXCEPT !.pages =
                            (name :> ((IF name \in DOMAIN scribe.pages
                                       THEN scribe.pages[name] ELSE {})
                                      \cup {parts.query})) @@ scribe.pages]]

\* ---- run: inputs

\* the first requests http://h/ and http://h/d/p
RunSeeds ==
    {HttpSeed, Request(PageUrl(Http, <<47, 100, 47, 112>>), <<>>, FALSE)}

\* the answers to the request for robots.txt: it does not exist, it holds
\* "disallow:/p" for every robot, the connection is refused, and the
\* connection is lost while the body is read
RunRobots ==
    {<<r>> : r \in {r \in TextResults :
        \/ r.kind = "response" /\ r.code = 404 /\ r.read = "ok"
        \/ r.kind = "response" /\ r.code = 200 /\ r.read = "ok" /\ r.charset = <<>>
              /\ r.body = <<117, 115, 101, 114, 45, 97, 103, 101, 110, 116, 58, 42, 10, 100, 105, 115, 97, 108, 108, 111, 119, 58, 47, 112>>
        \/ r.kind = "URLError"
        \/ r.kind = "response" /\ r.code = 200 /\ r.read = "IncompleteRead"}}

\* the directory of a page URL
DirOf(page_url) == SubSeq(page_url.path, 1, RIndex(page_url.path, 47) + 1)

\* the page of robots.txt
RobotsPage(page_url) ==
    PageUrl(page_url.scheme, urlsplit(RobotsUrl(page_url)).path)

\* the answers to a checked request that are no document with links: it
\* does not exist, it is a redirect to p/x, it is a document of another
\* type, and the status line cannot be parsed
RunResults(page_url) ==
    <<PageResult("response", 404, <<>>, <<"reason">>, urlunsplit(page_url), <<>>, <<>>, <<65>>, "ok"),
     PageResult("response", 301, <<>>, <<"reason">>,
                urlunsplit(PageUrl(page_url.scheme, DirOf(page_url) \o <<112, 47, 120>>)),
                <<>>, <<>>, <<65>>, "ok"),
     PageResult("response", 200, <<>>, <<"reason">>, urlunsplit(page_url),
                <<"application/octet-stream">>, <<>>, <<65>>, "ok"),
     PageResult("HTTPException", NoCode, <<>>, <<"bad status line">>, <<>>, <<>>, <<>>, <<>>, "ok")>>

\* the links and forms of a document: links to the first request's page
\* with every query; links to the page 'a' next to it and a form that
\* submits to the first request's page; a link to robots.txt
RunDocuments(page_url) ==
    << <<LinkSet(page_url, <<<<>>>> \o Ascending)>>,
     <<LinkSet(PageUrl(page_url.scheme, DirOf(page_url) \o <<97>>), Descending),
       Form(page_url, <<Q(2), Q(1)>>)>>,
     <<LinkSet(RobotsPage(page_url), <<<<>>>>)>> >>

\* A site is what the server answers to the first request, to the other
\* requests of its page (those with a query) and to the requests of other
\* pages, each the number of an answer: 1 to 4 for the results, 5 to 7 for
\* the documents. The first request gets any answer; a request with a query
\* is not found, cannot be answered, or gets the second document; another
\* page is a redirect, a document of another type, or the first document.
RunSites ==
    {[first |-> a, query |-> b, other |-> c] : a \in 1..7, b \in {1, 4, 6}, c \in {2, 3, 5}}

\* the answer of the site to the request
SiteAnswer(site, first_req, req) ==
    IF req.page_url # first_req.page_url THEN site.other
    ELSE IF req.query = <<>> THEN site.first
    ELSE site.query

\* ---- run

\* find_referrers_in_xml and find_referrers_in_html (checker.py lines
\* 458 and 504) keep the URLs that start with the base URL
InScope(base, links) ==
    SelectSeq(links, LAMBDA referrer : StartsWith(urlunsplit(referrer.page_url), base))

\* check for a request that is answered with an HTML document that holds
\* the links: the report has nothing to tell, the referrers are those in
\* scope
CheckDocument(base, req, links) ==
    [status |-> "returned", exception |-> "",
     referrers |-> InScope(base, links),
     resource_loaded |-> TRUE, content |-> <<>>,
     reports |-> <<Report(RequestStr(req))>>,
     answer |-> <<>>]

\* what check gives for the request when the server gives the answer
RunCheckOf(base, first_url, req, answer) ==
    IF answer <= Len(RunResults(first_url))
    THEN check(base, req, <<RunResults(first_url)[answer]>>)
    ELSE CheckDocument(base, req,
                       RunDocuments(first_url)[answer - Len(RunResults(first_url))])

\* run has not begun: the URL is parsed (lines 64-68), the server will
\* answer the request for robots.txt with the script and has the site
RunInit ==
    /\ NoSpider /\ NoParser
    /\ \E first_req \in RunSeeds, script \in RunRobots, site \in RunSites :
          call = [fn |-> "run", pc |-> "start", first_req |-> first_req,
                  robots |-> script, site |-> site,
                  request |-> <<>>, referrers |-> <<>>,
                  scribe |-> Scribe(urlunsplit(first_req.page_url)),
                  checked |-> <<>>, reported |-> <<>>, sources |-> <<>>, exception |-> "",
                  exit_code |-> <<>>]

\* lines 74-76: the report of robots.txt goes to the scribe, and the checker
\* is made for the base URL (checker.py line 223, with the base_url of
\* cmdline.py line 72 for the first parameter of lines 204-210)
RunScribe(report) ==
    IF report = <<>> THEN call' = [call EXCEPT !.pc = "next"]
    ELSE LET add == ScribeAddReport(call.scribe, report[1].url)
         IN  call' = [call EXCEPT !.scribe = add.scribe,
                                  !.pc = IF add.ok THEN "next" ELSE "raised",
                                  !.exception = IF add.ok THEN "" ELSE "AssertionError"]

\* lines 70-76 with what spider_req gave: Spider.__init__ (spider.py lines
\* 39-61), the Scribe, the report of robots.txt
RunSpider(made) ==
    IF made.status # "returned"
    THEN /\ call' = [call EXCEPT !.pc = "raised", !.exception = made.exception]
         /\ UNCHANGED spider_vars
    ELSE /\ base_url' = call.first_req.page_url
         /\ rules' = made.rules
         /\ requests_to_check' = {call.first_req}
         /\ requests_checked' = {}
         /\ last_call' = [op |-> "init", request |-> call.first_req,
                          referrers |-> <<>>, result |-> "ok"]
         /\ UNCHANGED <<queries_per_page, site_graph, page_referred_from,
                        yielded, enqueued>>
         /\ RunScribe(made.report)

\* lines 70-76
RunStart ==
    /\ call.fn = "run" /\ call.pc = "start"
    /\ RunSpider(spider_req(call.first_req, call.robots))
    /\ UNCHANGED <<records_read, parser, parser_pc>>

\* line 78, the next request of the spider (Spider.__iter__, spider.py
\* lines 63-71)
RunIterate ==
    /\ call.fn = "run" /\ call.pc = "next"
    /\ IterateSpider
    /\ call' = [call EXCEPT !.pc = "check",
                            !.request = <<ReqMin(requests_to_check)>>]
    /\ UNCHANGED <<records_read, parser, parser_pc>>

\* lines 78 and 82-92: the spider has no more requests; the report is
\* written and run returns 0
RunReturn ==
    /\ call.fn = "run" /\ call.pc = "next"
    /\ requests_to_check = {}
    /\ call' = [call EXCEPT !.pc = "done", !.exit_code = <<0>>]
    /\ UNCHANGED <<spider_vars, records_read, parser, parser_pc>>

\* line 79 with what check gives: its report has gone to the scribe
\* (checker.py line 282) when it returns. checked holds the requests that
\* check was called for, reported the URLs of the reports that the checks
\* added, sources the requests that add_requests was called for.
RunChecked(result, add) ==
    call' = IF result.status # "returned"
            THEN [call EXCEPT !.pc = "raised", !.exception = result.exception,
                              !.checked = Append(@, call.request[1])]
            ELSE [call EXCEPT !.pc = IF add.ok THEN "add" ELSE "raised",
                              !.exception = IF add.ok THEN "" ELSE "AssertionError",
                              !.checked = Append(@, call.request[1]),
                              !.scribe = add.scribe,
                              !.reported = IF add.ok THEN Append(@, result.reports[1].url)
                                           ELSE @,
                              !.referrers = result.referrers]

\* line 79 with what check gives
RunCheckResult(result) ==
    RunChecked(result,
               IF result.status = "returned"
               THEN ScribeAddReport(call.scribe, result.reports[1].url)
               ELSE [ok |-> FALSE, failed |-> "", scribe |-> call.scribe])

\* line 79: referrers = set(checker.check(request))
RunCheck ==
    /\ call.fn = "run" /\ call.pc = "check"
    /\ RunCheckResult(RunCheckOf(normalize_url(urlunsplit(base_url)), base_url,
                                 call.request[1],
                                 SiteAnswer(call.site, call.first_req, call.request[1])))
    /\ UNCHANGED <<spider_vars, records_read, parser, parser_pc>>

\* line 80: spider.add_requests(request, referrers)
RunAddRequests ==
    /\ call.fn = "run" /\ call.pc = "add"
    /\ AddRequestsTo(call.request[1], call.referrers)
    /\ call' = [call EXCEPT !.pc = IF ReqKey(call.request[1]) \in DOMAIN site_graph
                                   THEN "raised" ELSE "next",
                            !.exception = IF ReqKey(call.request[1]) \in DOMAIN site_graph
                                          THEN "AssertionError" ELSE "",
                            !.sources = Append(@, call.request[1]),
                            !.referrers = <<>>]
    /\ UNCHANGED <<records_read, parser, parser_pc>>

RunNext == RunStart \/ RunIterate \/ RunReturn \/ RunCheck \/ RunAddRequests

SpecRun == RunInit /\ [][RunNext]_vars

C23_OneAtATime ==
    call.fn = "run" =>
        LET handled == IF call.pc \in {"check", "add", "raised"} /\ yielded # <<>>
                       THEN SubSeq(yielded, 1, Len(yielded) - 1) ELSE yielded
        IN  /\ SubSeq(call.checked, 1, Len(handled)) = handled
            /\ call.sources \in {handled, yielded}
            /\ Len(call.checked) \in {Len(call.sources), Len(call.sources) + 1}
            /\ Len(call.checked) <= Len(yielded)
            /\ \A i \in 1..Len(handled) : call.reported[i] = RequestStr(handled[i])
            /\ Len(call.reported) \in {Len(call.sources), Len(call.sources) + 1}
            /\ call.pc \in {"next", "done"} =>
                  /\ call.checked = yielded /\ call.sources = yielded
                  /\ Len(call.reported) = Len(yielded)

\* run has checked three requests and is about to take the fourth
C23_ThreeChecked ==
    /\ call.fn = "run" /\ call.pc = "next"
    /\ Len(yielded) = 3 /\ requests_to_check # {}
    /\ call.sources = yielded

\* the check of the second request ended with an exception: the request
\* has no report and add_requests was not called for it
C23_CheckRaised ==
    /\ call.fn = "run" /\ call.pc = "raised" /\ call.exception = "HTTPException"
    /\ Len(yielded) = 2 /\ Len(call.sources) = 1
    /\ Len(call.reported) = 1

\* ---- PageChecker.check: content that is not checked

\* the check returned
CheckReturned ==
    call.fn = "check" /\ call.result # <<>> /\ call.result[1].status = "returned"

\* the new location of the redirect that the check was answered with
ContentUrl == normalize_url(call.result[1].answer[1].url)

\* C24: when check returns and got no content, its report is marked
\* NO_CONTENT; when it got content with a status other than 200, its report
\* is marked HTTP_STATUS_SKIP. In both cases the content is not handed to
\* the plugins and no referrer comes from the body: check returns no
\* referrer, or one Redirect, and that only after an answer with a 3xx
\* status whose new location is not the request's URL and begins with the
\* base URL; the Redirect is to the request of that location.
C24_ContentNotChecked ==
    (CheckReturned
        /\ (call.result[1].content = <<>> \/ call.result[1].answer[1].code # 200)) =>
        LET result == call.result[1]
        IN  /\ Len(result.reports) = 1
            /\ result.reports[1].checked =
                  IF result.content = <<>> THEN "NO_CONTENT" ELSE "HTTP_STATUS_SKIP"
            /\ ~result.resource_loaded
            /\ Len(result.referrers) <= 1
            /\ result.referrers # <<>> =>
                  /\ result.answer # <<>>
                  /\ result.answer[1].code \in 300..399
                  /\ ContentUrl # RequestStr(call.req)
                  /\ StartsWith(ContentUrl, call.base_url)
                  /\ from_url(ContentUrl).ok
                  /\ result.referrers[1] = Redirect(from_url(ContentUrl).request)

\* C24 witness: a request was answered with 301 and an HTML document with a
\* link; the check returned the Redirect to http://h/z alone and marked the
\* report HTTP_STATUS_SKIP
C24_RedirectAlone ==
    /\ CheckReturned
    /\ call.result[1].answer # <<>> /\ call.result[1].answer[1].code = 301
    /\ call.result[1].content = <<HtmlDocument>>
    /\ Len(call.result[1].referrers) = 1
    /\ call.result[1].referrers[1].kind = "Redirect"
    /\ call.result[1].reports[1].checked = "HTTP_STATUS_SKIP"

\* the same document with status 404 gave no referrer, and the body that
\* was lost gave a report marked NO_CONTENT
C24_ErrorPage ==
    /\ CheckReturned
    /\ call.result[1].answer # <<>> /\ call.result[1].answer[1].code = 404
    /\ call.result[1].content = <<HtmlDocument>>
    /\ call.result[1].referrers = <<>>

\* with status 200 the link of the document is a referrer and the plugins
\* get the content
C24_LinkFollowed ==
    /\ CheckReturned
    /\ call.result[1].answer # <<>> /\ call.result[1].answer[1].code = 200
    /\ call.result[1].content = <<HtmlDocument>>
    /\ Len(call.result[1].referrers) = 1
    /\ call.result[1].referrers[1].kind = "LinkSet"
    /\ call.result[1].resource_loaded

\* ---- Spider.add_requests: the query cap and the later referrers

\* the request is in the frontier or was yielded
Known(request) ==
    InReqSet(request, requests_to_check) \/ InReqSet(request, requests_checked)

\* C25: after a call of add_requests that passed the assertion, every
\* referrer offered that referrer_allowed accepts is in site_graph under the
\* source, its page has the source in page_referred_from, and each of its
\* requests is known to the spider unless the budget of its own page is
\* used up, also when a referrer before it in the call reached the cap of
\* its page; a referrer that referrer_allowed rejects is not in site_graph
\* under the source and its page is no key of page_referred_from.
C25_CapEndsOneReferrer ==
    (last_call.op = "add_requests" /\ last_call.result = "ok") =>
        LET source_req == last_call.request
        IN  \A i \in 1..Len(last_call.referrers) :
              LET referrer == last_call.referrers[i]
                  url == referrer.page_url
              IN  IF referrer_allowed(referrer)
                  THEN /\ referrer \in Range(site_graph[ReqKey(source_req)])
                       /\ url \in DOMAIN page_referred_from
                       /\ InReqSet(source_req, page_referred_from[url])
                       /\ \A k \in 1..Len(referrer.requests) :
                             \/ Known(referrer.requests[k])
                             \/ /\ url \in DOMAIN queries_per_page
                                /\ queries_per_page[url] >= max_queries_per_page
                  ELSE /\ referrer \notin Range(site_graph[ReqKey(source_req)])
                       /\ url \notin DOMAIN page_referred_from

\* C25 witness: the first referrer of the call reached the cap of its page
\* (one of its requests is not known), and the request of the second
\* referrer, of another page, was enqueued after that
C25_LaterReferrerEnqueued ==
    /\ last_call.op = "add_requests" /\ last_call.result = "ok"
    /\ Len(last_call.referrers) = 2
    /\ referrer_allowed(last_call.referrers[1])
    /\ \E k \in 1..Len(last_call.referrers[1].requests) :
          ~Known(last_call.referrers[1].requests[k])
    /\ last_call.referrers[2].page_url # last_call.referrers[1].page_url
    /\ enqueued # <<>>
    /\ ReqEq(enqueued[Len(enqueued)], last_call.referrers[2].requests[1])
    /\ InReqSet(last_call.request,
                page_referred_from[last_call.referrers[2].page_url])

\* the second referrer of the call was rejected and the first was recorded
C25_RejectedNotRecorded ==
    /\ last_call.op = "add_requests" /\ last_call.result = "ok"
    /\ Len(last_call.referrers) = 2
    /\ referrer_allowed(last_call.referrers[1])
    /\ ~referrer_allowed(last_call.referrers[2])
    /\ site_graph[ReqKey(last_call.request)] = <<last_call.referrers[1]>>

\* ---- Spider.iter_referring_requests

\* Referrer.has_request: a Redirect and a LinkSet have the requests they
\* hold; a Form has every request of its page whose (key, value) pairs are
\* all accepted by a control of the form
has_request(referrer, dest_req) ==
    IF referrer.kind = "Form"
    THEN /\ referrer.page_url = dest_req.page_url
         /\ \A i \in 1..Len(dest_req.query) :
               \E k \in 1..Len(referrer.requests) :
                   dest_req.query[i] \in Range(referrer.requests[k].query)
    ELSE \E k \in 1..Len(referrer.requests) : ReqEq(referrer.requests[k], dest_req)

\* (mutant) every source that refers to the page is yielded
RECURSIVE ReferringLoop_SamePage(_, _, _)
ReferringLoop_SamePage(sources, dest_req, yields) ==
    IF sources = {} THEN [result |-> "ok", yields |-> yields]
    ELSE LET source_req == ReqMin(sources)
         IN  IF ReqKey(source_req) \notin DOMAIN site_graph
             THEN [result |-> "KeyError", yields |-> yields]
             ELSE ReferringLoop_SamePage(sources \ {source_req}, dest_req,
                                         Append(yields, source_req))

\* The generator when it is consumed: what it yields, or the KeyError of
\* the lookup self._site_graph[source_req] with what was yielded before
\* it. The sources are taken in ascending order; the order in which
\* Python iterates over the set is another, which the set of the yielded
\* sources does not depend on.
RECURSIVE ReferringLoop(_, _, _)
ReferringLoop(sources, dest_req, yields) ==
    IF sources = {} THEN [result |-> "ok", yields |-> yields]
    ELSE LET source_req == ReqMin(sources)
         IN  IF ReqKey(source_req) \notin DOMAIN site_graph
             THEN [result |-> "KeyError", yields |-> yields]
             ELSE ReferringLoop(
                      sources \ {source_req}, dest_req,
                      yields \o [i \in 1..Len(SelectSeq(site_graph[ReqKey(source_req)],
                                                        LAMBDA referrer : has_request(referrer, dest_req)))
                                   |-> source_req])

\* lines 131-136; page_referred_from is a defaultdict, which gets an
\* entry for the page by the lookup of line 133
iter_referring_requests(dest_req) ==
    ReferringLoop(Touch(page_referred_from, dest_req.page_url, {})[dest_req.page_url],
                  dest_req, <<>>)

\* the requests asked for: of the first request's page with the first and
\* the last query offered, and of a page that no referrer names
DestRequests ==
    {Request(base_url, Q(1), FALSE), Request(base_url, Q(NumQueries), TRUE),
     Request(PageUrl(base_url.scheme, <<47, 110>>), <<>>, FALSE)}

\* iter_referring_requests(dest_req), consumed
Referring(dest_req, looked) ==
    /\ last_call' = [op |-> "iter_referring_requests", request |-> dest_req,
                     referrers |-> <<>>, result |-> looked.result,
                     yields |-> looked.yields]
    /\ page_referred_from' = Touch(page_referred_from, dest_req.page_url, {})
    /\ UNCHANGED <<base_url, rules, requests_to_check, requests_checked,
                   queries_per_page, site_graph, yielded, enqueued>>
    /\ UNCHANGED robots_vars

IterReferringRequests ==
    \E dest_req \in DestRequests :
        /\ last_call.op # "iter_referring_requests"
        /\ Referring(dest_req, iter_referring_requests(dest_req))

\* the spider is driven as in Spec, up to any of its states, and the
\* generator is consumed there (the report does so for the requests of
\* its pages when the crawl has ended)
Crawl == last_call.op # "iter_referring_requests" /\ Next

ReferringNext == Crawl \/ IterReferringRequests

SpecReferring == Init /\ [][ReferringNext]_vars

\* the sources under which a referrer is recorded that has the request
Referring_Sources(dest_req) ==
    {ReqKey(yielded[i]) : i \in {i \in 1..Len(yielded) :
        /\ ReqKey(yielded[i]) \in DOMAIN site_graph
        /\ \E k \in 1..Len(site_graph[ReqKey(yielded[i])]) :
              has_request(site_graph[ReqKey(yielded[i])][k], dest_req)}}

C26_YieldedTwice ==
    /\ last_call.op = "iter_referring_requests"
    /\ Len(last_call.yields) = 2
    /\ ReqEq(last_call.yields[1], last_call.yields[2])

\* ---- run: the end of the crawl

\* The loop of run goes on by itself: when a check has returned,
\* add_requests is called, then the spider is asked for the next request,
\* and run returns when there is none. Whether a call of check ends is up
\* to the server.
SpecRunFair ==
    /\ RunInit /\ [][RunNext]_vars
    /\ WF_vars(RunIterate) /\ WF_vars(RunAddRequests) /\ WF_vars(RunReturn)

\* every check terminates: it returns or raises
ChecksTerminate ==
    [](call.pc = "check" => <>(call.pc # "check"))

\* the request was yielded exactly once
YieldedOnce(request) ==
    Cardinality({i \in 1..Len(yielded) : ReqEq(yielded[i], request)}) = 1

\* the loop of run has ended with no request left and every request that
\* was ever in the frontier, the first one and the ones add_requests
\* enqueued, was yielded exactly once
CrawlDone ==
    /\ call.fn = "run" /\ call.pc = "done"
    /\ requests_to_check = {}
    /\ YieldedOnce(call.first_req)
    /\ \A i \in 1..Len(enqueued) : YieldedOnce(enqueued[i])

C27_CrawlEnds ==
    ChecksTerminate =>
        ((call.fn = "run" /\ call.pc = "check") ~> (call.pc \in {"done", "raised"}))

\* when the loop has ended by the end of the requests, the frontier is
\* empty and what was enqueued was yielded exactly once
C27_DoneWithAllYielded ==
    (call.fn = "run" /\ call.pc = "done") => CrawlDone

\* the loop was ended by an exception of a check while requests were left
C27_RaisedWithFrontier ==
    /\ call.fn = "run" /\ call.pc = "raised" /\ Len(call.checked) = 2
    /\ requests_to_check # {}

-----------------------------------------------------------------------------
(* The flag of a queued request (request.py 72-93, spider.py 121-129)      *)

\* the instances among rs that a set of Requests takes for the request
Instances(rs, request) == {s \in rs : ReqKey(s) = ReqKey(request)}

\* the requests that the last add_requests was offered by the referrers
\* that the rules allow
Offered ==
    LET allowed_referrers == SelectSeq(last_call.referrers, referrer_allowed)
    IN  UNION {{allowed_referrers[k].requests[n] :
                    n \in 1..Len(allowed_referrers[k].requests)} :
               k \in 1..Len(allowed_referrers)}

\* the request is the first request of the spider or the first instance
\* of it that add_requests put into the frontier
FirstEnqueued(request) ==
    \/ request \in {HttpSeed, FileSeed}
    \/ \E i \in 1..Len(enqueued) :
          /\ enqueued[i] = request
          /\ \A j \in 1..(i - 1) : ReqKey(enqueued[j]) # ReqKey(request)

\* the spider holds one instance of a request, the first one enqueued, and
\* yields that instance
FirstInstanceHeld ==
    /\ \A request \in requests_to_check \cup requests_checked :
          /\ Instances(requests_to_check \cup requests_checked, request) = {request}
          /\ FirstEnqueued(request)
    /\ \A i \in 1..Len(yielded) : yielded[i] \in requests_checked

\* a step of add_requests leaves every queued request in the frontier as
\* the one instance of it, whatever equal instances it is offered
QueuedInstanceStays ==
    (last_call'.op = "add_requests" /\ yielded' = yielded)
        => \A request \in requests_to_check :
              Instances(requests_to_check', request) = {request}

\* A document that holds a link to the first page with the query q=1 and
\* a form that submits the same one request: the referrers come in either
\* order, or one alone, and leave room in the page's budget
FlagReferrerLists(scheme) ==
    LET page_url == ReferrersOf(scheme)[1].page_url
        link == LinkSet(page_url, <<Q(1)>>)
        form == Form(page_url, <<Q(1)>>)
    IN  {<<link>>, <<form>>, <<link, form>>, <<form, link>>}

\* add_requests for such a document
AddFlagged ==
    \E source_req \in AddSources, referrers \in FlagReferrerLists(base_url.scheme) :
        /\ ReqKey(source_req) \notin DOMAIN site_graph
        /\ Cardinality(DOMAIN site_graph) < MaxAdds
        /\ AddRequestsTo(source_req, referrers)
        /\ UNCHANGED robots_vars

FlagNext == Next \/ AddFlagged

SpecFlag == Init /\ [][FlagNext]_vars

\* C28: Request equality ignores maybe_bad, so the flag with which a request
\* is fetched is that of the first instance enqueued: add_requests, offered
\* an equal instance with the other flag, leaves the frontier's instance of
\* that request as it is, and the iterator yields that instance.
C28_FirstFlagKept == []FirstInstanceHeld /\ [][QueuedInstanceStays]_vars

\* add_requests has been offered a speculative instance (of a form) of a
\* request that is queued as a link's instance
C28_SpeculativeOffered ==
    /\ last_call.op = "add_requests" /\ last_call.result = "ok"
    /\ \E offered \in Offered, request \in requests_to_check :
          /\ ReqKey(offered) = ReqKey(request)
          /\ offered.maybe_bad /\ ~request.maybe_bad

\* a request was yielded as the speculative instance enqueued first, and a
\* later add_requests has been offered a link's instance of it
C28_SpeculativeFetched ==
    /\ last_call.op = "add_requests" /\ last_call.result = "ok"
    /\ \E offered \in Offered, i \in 1..Len(yielded) :
          /\ ReqKey(offered) = ReqKey(yielded[i])
          /\ ~offered.maybe_bad /\ yielded[i].maybe_bad

-----------------------------------------------------------------------------
(* The reports of a run (report.py 264-276, 364-377; cmdline.py 71-81)     *)

\* the URL of robots.txt as spider_req makes it (spider.py lines 145-149)
RunRobotsUrl == urlunsplit(RobotsPage(call.first_req.page_url))

C29_CheckedUrlsDiffer ==
    call.fn = "run" =>
        \A i, j \in 1..Len(call.reported) : call.reported[i] = call.reported[j] => i = j

\* an assertion of the Scribe fails only for the report of robots.txt
C29_OnlyRobotsFails ==
    (call.fn = "run" /\ call.exception = "AssertionError") =>
        call.scribe.added[Len(call.scribe.added)] = RunRobotsUrl

\* robots.txt has a report from before the crawl, a crawled page links to it
\* and the check of it adds a second report for its URL
C29_RobotsReportedTwice ==
    /\ call.fn = "run" /\ call.pc = "raised" /\ call.exception = "AssertionError"
    /\ Len(call.checked) = 2
    /\ Len(SelectSeq(call.scribe.added, LAMBDA url : url = RunRobotsUrl)) = 2

\* the report of robots.txt is refused before the crawl: its path lies
\* outside the directory of the base URL
C29_RobotsOutsideBase ==
    /\ call.fn = "run" /\ call.pc = "raised" /\ call.exception = "AssertionError"
    /\ call.checked = <<>>
    /\ call.scribe.added = <<RunRobotsUrl>>

\* robots.txt does not exist, a crawled page links to it, and its one report
\* is that of the crawl
C29_RobotsReportedOnce ==
    /\ call.fn = "run" /\ call.pc = "done"
    /\ \E i \in 1..Len(call.reported) : call.reported[i] = RunRobotsUrl

-----------------------------------------------------------------------------
(* load_text as a process (fetch.py 228-243)                                *)

\* line 234: the answer is a redirect that load_text counts
IsRedirect(loaded) ==
    /\ loaded.status = "returned" /\ loaded.response # <<>>
    /\ loaded.response[1].code \in {301, 302, 303, 307}

\* (mutant) every redirect is followed
LoadTextFollows_NoLimit(redirect_count, loaded) ==
    IsRedirect(loaded)

\* lines 234-241: the loop goes on with the URL of the response
LoadTextFollows(redirect_count, loaded) ==
    IsRedirect(loaded) /\ redirect_count + 1 <= MaxRedirects

\* http://h/robots.txt
LoadTextUrl == <<104, 116, 116, 112, 58, 47, 47, 104, 47, 114, 111, 98, 111, 116, 115, 46, 116, 120, 116>>

\* n answers with the status code, each with the new location http://h/r
RedirectsOf(code, n) == [i \in 1..n |-> [RedirectResult EXCEPT !.code = code]]

\* the answers after the redirects: the text, a text whose body is lost
\* while it is read, statuses that are neither 200 nor a redirect that is
\* followed (300 and 308 among them; 404 also with a body that cannot be
\* read), a local file, a refused connection, a status line that cannot be
\* parsed, and one more redirect
LoadTextResults ==
    {r \in TextResults :
        \/ r.kind = "response" /\ r.code = 200 /\ r.read = "ok" /\ r.body = <<52, 49>>
              /\ r.charset = <<>>
        \/ r.kind = "response" /\ r.code = 200 /\ r.read = "IncompleteRead"
        \/ r.kind = "response" /\ r.code \in {NoCode, 300, 500} /\ r.read = "ok"
        \/ r.kind = "response" /\ r.code = 404
        \/ r.kind \in {"URLError", "HTTPException"}}
    \cup {[RedirectResult EXCEPT !.code = 308], RedirectResult}

\* the scripts: no redirect, one, as many as load_text follows, or one more,
\* of any of the four status codes, and then up to MaxScript answers, of
\* which all but the last are redirects (the server is asked again only
\* after a redirect)
LoadTextScripts ==
    {RedirectsOf(code, n) \o tail :
        code \in {301, 302, 303, 307},
        n \in {0, 1, MaxRedirects, MaxRedirects + 1},
        tail \in {t \in SeqsUpTo(LoadTextResults, MaxScript) :
                     \A i \in 1..(Len(t) - 1) : t[i] = RedirectResult}}

\* load_text(url) has been called: start is the place in the script of the
\* answer to the next load, loads the number of calls of load_page so far,
\* loaded what the last of them gave
LoadTextInit ==
    /\ NoSpider /\ NoParser
    /\ \E script \in LoadTextScripts :
          call = [fn |-> "load_text", pc |-> "load", url |-> LoadTextUrl,
                  script |-> script, start |-> 1, redirect_count |-> 0, loads |-> 0,
                  loaded |-> <<>>, result |-> <<>>]

\* line 230: load_page(url, accept_header=accept_header)
LoadTextLoad ==
    /\ call.fn = "load_text" /\ call.pc = "load"
    /\ call' = [call EXCEPT !.pc = "loaded", !.loads = @ + 1,
                            !.loaded = <<load_page(call.url, FALSE, call.script, call.start)>>]
    /\ UNCHANGED <<spider_vars, records_read, parser, parser_pc>>

\* lines 231-243 and what follows the loop, with what load_page gave: the
\* loop goes on with the new URL, or load_text ends
LoadTextStep(loaded) ==
    call' = IF LoadTextFollows(call.redirect_count, loaded)
            THEN [call EXCEPT !.pc = "load",
                              !.url = loaded.response[1].url,
                              !.start = loaded.at + 1,
                              !.redirect_count = @ + 1]
            ELSE [call EXCEPT !.pc = "done",
                              !.redirect_count = IF IsRedirect(loaded) THEN @ + 1 ELSE @,
                              !.result = <<LoadTextLoaded(call.url, call.script,
                                                          call.redirect_count, loaded)>>]

\* the load has ended (the server has answered): the body of the loop
LoadTextNext ==
    /\ call.fn = "load_text" /\ call.pc = "loaded"
    /\ call.loaded[1].status # "waiting"
    /\ LoadTextStep(call.loaded[1])
    /\ UNCHANGED <<spider_vars, records_read, parser, parser_pc>>

LoadTextRun == LoadTextLoad \/ LoadTextNext

SpecLoadText == LoadTextInit /\ [][LoadTextRun]_vars

\* load_text runs on: it calls load_page, and goes on when the load has
\* ended
SpecLoadTextFair == SpecLoadText /\ WF_vars(LoadTextLoad) /\ WF_vars(LoadTextNext)

\* load_text has ended
LoadTextEnded == call.fn = "load_text" /\ call.pc = "done"

\* the server does not answer the load in hand: that load does not end
LoadPending ==
    /\ call.fn = "load_text" /\ call.pc = "loaded"
    /\ call.loaded[1].status = "waiting"

\* the warnings of the report
Warnings(report) == SelectSeq(report.log, LAMBDA message : message[1] = "warning")

\* the last answer had a status that is neither 200, None nor a redirect
\* that load_text counts
OtherStatus(result) ==
    /\ result.status = "returned" /\ result.response # <<>>
    /\ result.response[1].code \notin {200, NoCode, 301, 302, 303, 307}

\* the last answer was a redirect that load_text counts
RedirectStatus(result) ==
    /\ result.status = "returned" /\ result.response # <<>>
    /\ result.response[1].code \in {301, 302, 303, 307}

\* at most ten redirects are followed and eleven loads made; load_text ends
\* with a redirect only at the eleventh, with the warning and no content;
\* any other status but 200 ends it at that load, with no content, and so
\* does an exception
LoadTextBounded ==
    call.fn = "load_text" =>
        /\ call.loads <= MaxRedirects + 1
        /\ LoadTextEnded =>
              LET result == call.result[1]
              IN  /\ RedirectStatus(result) =>
                        /\ call.loads = MaxRedirects + 1
                        /\ call.redirect_count = MaxRedirects + 1
                        /\ result.lines = <<>>
                        /\ Warnings(result.report) = << <<"warning", "Redirect limit exceeded">> >>
                  /\ OtherStatus(result) =>
                        /\ result.lines = <<>>
                        /\ Warnings(result.report) = <<>>
                        /\ result.at = call.start
                        /\ call.script[result.at].code = result.response[1].code
                        /\ call.redirect_count = call.loads - 1
                  /\ result.status = "raised" => result.lines = <<>>

\* C30: load_text follows at most 10 redirects (301, 302, 303, 307) and
\* performs at most 11 loads: on the 11th consecutive redirect it logs
\* 'Redirect limit exceeded' and returns no content, any other non-200
\* status ends it at once with no content, and it terminates whenever each
\* load terminates, also when the server redirects without end.
C30_AtMostTenRedirects == []LoadTextBounded /\ <>(LoadTextEnded \/ LoadPending)

\* load_text has ended at the eleventh redirect while the server has more
\* redirects to give
C30_LimitExceeded ==
    /\ LoadTextEnded /\ RedirectStatus(call.result[1])
    /\ call.loads = MaxRedirects + 1
    /\ Len(call.script) > MaxRedirects + 1
    /\ \A i \in 1..(MaxRedirects + 1) : call.script[i].code = 307

\* ten redirects were followed and the eleventh load gave the text
C30_TenFollowed ==
    /\ LoadTextEnded /\ call.result[1].status = "returned"
    /\ call.redirect_count = MaxRedirects /\ call.loads = MaxRedirects + 1
    /\ call.result[1].lines # <<>>

\* a status that is no redirect for load_text ended it after a redirect
C30_OtherStatusEnds ==
    /\ LoadTextEnded /\ OtherStatus(call.result[1])
    /\ call.result[1].response[1].code = 308
    /\ call.loads = 2

\* a load went wrong with an exception that load_text lets through
C30_LoadRaised ==
    /\ LoadTextEnded /\ call.result[1].status = "raised"

====
